---- MODULE Spec2Model ----
(***************************************************************************)
(* Verification model of the hallucination-mitigation and self-repair loop *)
(* of Autosafactory_genai: Fixer (tiered repair), Executor, the UI repair  *)
(* loop, the pre-execution validator with the Hallucination Fix Table, and *)
(* the symbol-table / relationship-graph caches.                           *)
(*                                                                         *)
(* Text (code, error messages, LLM responses, stderr) is a sequence of     *)
(* atoms.  An atom is a fixed non-empty string; a text is the              *)
(* concatenation of its atoms.  Python's substring test, str.replace,      *)
(* str.split, str.strip and the regular expressions of the source are      *)
(* computed on these sequences.  The atoms are cut so that every           *)
(* identifier the source searches for is a whole number of atoms ("new_",  *)
(* "set_", "Ref" and the pluralising "s" are atoms of their own), so an    *)
(* occurrence at character level is an occurrence at atom level.           *)
(***************************************************************************)
EXTENDS Integers, Sequences, FiniteSets, TLC

\* ------------------------------------------------------------------ text

\* Atoms that match the regular expression class \w (one or more of them
\* form an identifier); every other atom is punctuation or white space.
IsWord(a) ==
  a \notin {".", "(", ")", ",", " ", "NL", "DQ", "SQ", ":", "[", "]", "FENCE", "="}

\* p occurs in s at position i
MatchAt(s, p, i) ==
  /\ i >= 1
  /\ i + Len(p) - 1 <= Len(s)
  /\ \A k \in 1..Len(p) : s[i + k - 1] = p[k]

\* Python: p in s  (p non-empty)
Contains(s, p) == \E i \in 1..Len(s) : MatchAt(s, p, i)

\* Python: s.replace(old, new), scanning left to right, non-overlapping
RECURSIVE ReplaceFrom(_, _, _, _)
ReplaceFrom(s, old, new, i) ==
  IF i > Len(s) THEN <<>>
  ELSE IF MatchAt(s, old, i) THEN new \o ReplaceFrom(s, old, new, i + Len(old))
  ELSE <<s[i]>> \o ReplaceFrom(s, old, new, i + 1)

Replace(s, old, new) == ReplaceFrom(s, old, new, 1)

\* least position >= i where p occurs in s, or 0
RECURSIVE FindFrom(_, _, _)
FindFrom(s, p, i) ==
  IF i > Len(s) THEN 0
  ELSE IF MatchAt(s, p, i) THEN i
  ELSE FindFrom(s, p, i + 1)

Tail0(s, i) == IF i > Len(s) THEN <<>> ELSE SubSeq(s, i, Len(s))

\* Python: s.split(sep)[0] and s.split(sep)[1] (the latter only when sep in s)
SplitFirst(s, sep) ==
  LET i == FindFrom(s, sep, 1) IN IF i = 0 THEN s ELSE SubSeq(s, 1, i - 1)

SplitSecond(s, sep) ==
  LET i == FindFrom(s, sep, 1) IN SplitFirst(Tail0(s, i + Len(sep)), sep)

\* Python: s.strip()
RECURSIVE LStrip(_)
LStrip(s) == IF s # <<>> /\ Head(s) \in {" ", "NL"} THEN LStrip(Tail(s)) ELSE s

RECURSIVE RStrip(_)
RStrip(s) ==
  IF s # <<>> /\ s[Len(s)] \in {" ", "NL"} THEN RStrip(SubSeq(s, 1, Len(s) - 1)) ELSE s

Strip(s) == RStrip(LStrip(s))

\* end (inclusive) of the maximal run of \w atoms starting at i; i-1 if none
RECURSIVE WordRunEnd(_, _)
WordRunEnd(s, i) ==
  IF i <= Len(s) /\ IsWord(s[i]) THEN WordRunEnd(s, i + 1) ELSE i - 1

\* end (inclusive) of the maximal run of atoms other than ")" starting at i
RECURSIVE NonCloseRunEnd(_, _)
NonCloseRunEnd(s, i) ==
  IF i <= Len(s) /\ s[i] # ")" THEN NonCloseRunEnd(s, i + 1) ELSE i - 1

\* Joining lines with newlines
RECURSIVE JoinLines(_)
JoinLines(ls) ==
  IF ls = <<>> THEN <<>>
  ELSE IF Len(ls) = 1 THEN ls[1]
  ELSE ls[1] \o <<"NL">> \o JoinLines(Tail(ls))

\* Python: ref_type[0].lower() + ref_type[1:], on the first atom of ref_type
LowerFirst(a) ==
  CASE a = "Frame" -> "frame"
    [] a = "Pdu" -> "pdu"
    [] a = "ISignal" -> "iSignal"
    [] OTHER -> a

NoMatch == [ok |-> FALSE, end |-> 0, rep |-> <<>>]

At(s, i) == IF i >= 1 /\ i <= Len(s) THEN s[i] ELSE "EOF"

\* ------------------------------------------------- regular expressions

\* r'\.new_(\w+)Ref\(\)\.set_value\(ARG\)' with ARG = (\w+) when wordArg
\* and ([^)]+) otherwise; replaced by '.set_' + lower-first(ref_type) +
\* '(' + ARG + ')'.  The greedy \w+ before Ref\( ends at the last Ref of
\* the identifier, which is the end of the run of \w atoms.
RefPatternMatch(s, i, wordArg) ==
  LET e  == WordRunEnd(s, i + 2)
      a  == e + 7
      ae == IF wordArg THEN WordRunEnd(s, a) ELSE NonCloseRunEnd(s, a)
  IN IF /\ At(s, i) = "." /\ At(s, i + 1) = "new_"
        /\ e >= i + 3 /\ s[e] = "Ref"
        /\ At(s, e + 1) = "(" /\ At(s, e + 2) = ")" /\ At(s, e + 3) = "."
        /\ At(s, e + 4) = "set_" /\ At(s, e + 5) = "value" /\ At(s, e + 6) = "("
        /\ ae >= a /\ At(s, ae + 1) = ")"
     THEN [ok |-> TRUE, end |-> ae + 1,
           rep |-> <<".", "set_", LowerFirst(s[i + 2])>> \o SubSeq(s, i + 3, e - 1)
                   \o <<"(">> \o SubSeq(s, a, ae) \o <<")">>]
     ELSE NoMatch

\* r'set_packingByteOrder\(["\']MOST-SIGNIFICANT-BYTE-<which>["\']\)'
Quotes == {"DQ", "SQ"}

ByteOrderMatch(s, i, which) ==
  IF /\ At(s, i) = "set_" /\ At(s, i + 1) = "packingByteOrder" /\ At(s, i + 2) = "("
     /\ At(s, i + 3) \in Quotes /\ At(s, i + 4) = which
     /\ At(s, i + 5) \in Quotes /\ At(s, i + 6) = ")"
  THEN [ok |-> TRUE, end |-> i + 6,
        rep |-> <<"set_", "packingByteOrder", "(", "autosarfactory", ".",
                  "ByteOrderEnum", ".",
                  IF which = "MOST-SIGNIFICANT-BYTE-LAST"
                  THEN "VALUE_MOST_SIGNIFICANT_BYTE_LAST"
                  ELSE "VALUE_MOST_SIGNIFICANT_BYTE_FIRST", ")">>]
  ELSE NoMatch

\* r'autosarfactory\.save\([^)]+\)' replaced by 'autosarfactory.save()'
SavePatternMatch(s, i) ==
  LET a  == i + 4
      ae == NonCloseRunEnd(s, a)
  IN IF /\ At(s, i) = "autosarfactory" /\ At(s, i + 1) = "." /\ At(s, i + 2) = "save"
        /\ At(s, i + 3) = "(" /\ ae >= a /\ At(s, ae + 1) = ")"
     THEN [ok |-> TRUE, end |-> ae + 1, rep |-> <<"autosarfactory", ".", "save", "(", ")">>]
     ELSE NoMatch

\* 'set_packingByteOrder("' in code or "set_packingByteOrder('" in code
ByteOrderStringMatch(s, i) ==
  IF /\ At(s, i) = "set_" /\ At(s, i + 1) = "packingByteOrder" /\ At(s, i + 2) = "("
     /\ At(s, i + 3) \in Quotes
  THEN [ok |-> TRUE, end |-> i + 3, rep |-> <<>>]
  ELSE NoMatch

\* Python: re.sub(pattern, repl, s) for the three rewriting patterns: the
\* matches are taken left to right and do not overlap; From[i] is the
\* rewritten text from position i on.
SubRefPattern(s, wordArg) ==
  LET From[i \in 1..(Len(s) + 1)] ==
        IF i > Len(s) THEN <<>>
        ELSE LET m == RefPatternMatch(s, i, wordArg) IN
             IF m.ok THEN m.rep \o From[m.end + 1] ELSE <<s[i]>> \o From[i + 1]
  IN From[1]

SubByteOrder(s, which) ==
  LET From[i \in 1..(Len(s) + 1)] ==
        IF i > Len(s) THEN <<>>
        ELSE LET m == ByteOrderMatch(s, i, which) IN
             IF m.ok THEN m.rep \o From[m.end + 1] ELSE <<s[i]>> \o From[i + 1]
  IN From[1]

SubSavePattern(s) ==
  LET From[i \in 1..(Len(s) + 1)] ==
        IF i > Len(s) THEN <<>>
        ELSE LET m == SavePatternMatch(s, i) IN
             IF m.ok THEN m.rep \o From[m.end + 1] ELSE <<s[i]>> \o From[i + 1]
  IN From[1]

\* Python: re.search(pattern, s) is not None, or a substring test
SearchSavePattern(s) == \E i \in 1..Len(s) : SavePatternMatch(s, i).ok

SearchByteOrderString(s) == \E i \in 1..Len(s) : ByteOrderStringMatch(s, i).ok

\* ------------------------------------------------------------ Fixer

\* "has no attribute '<old>'"
NoAttribute(old) == <<"has no attribute ", "SQ">> \o old \o <<"SQ">>

\* Fixer._apply_deterministic_fixes: error_fixes, in the dict's order.
\* fix = <<old, new>>, or <<>> for None.
error_fixes == <<
  [old |-> <<"new_", "Swc", "InternalBehavior">>, new |-> <<"new_", "InternalBehavior">>, fix |-> TRUE],
  [old |-> <<"new_", "Runnable", "Entity">>, new |-> <<"new_", "Runnable">>, fix |-> TRUE],
  [old |-> <<"new_", "DataReadAcces", "s">>, new |-> <<"new_", "DataReadAcces">>, fix |-> TRUE],
  [old |-> <<"new_", "DataWriteAcces", "s">>, new |-> <<"new_", "DataWriteAcces">>, fix |-> TRUE],
  [old |-> <<"new_", "Variable", "DataPrototype">>, new |-> <<"new_", "DataElement">>, fix |-> TRUE],
  [old |-> <<"new_", "Service", "Event">>, new |-> <<"new_", "Event">>, fix |-> TRUE],
  [old |-> <<"new_", "Sw", "Component", "Prototype">>, new |-> <<"new_", "Component">>, fix |-> TRUE],
  [old |-> <<"new_", "Component", "Prototype">>, new |-> <<"new_", "Component">>, fix |-> TRUE],
  [old |-> <<"new_", "Some", "Ip", "Service", "InterfaceDeployment">>,
   new |-> <<"new_", "Some", "ip", "Service", "InterfaceDeployment">>, fix |-> TRUE],
  [old |-> <<"new_", "Some", "Ip", "Event", "Deployment">>,
   new |-> <<"new_", "Some", "ip", "Event", "Deployment">>, fix |-> TRUE],
  [old |-> <<"set_", "value">>, new |-> <<>>, fix |-> FALSE] >>

\* The entry Tier 1 applies: the first one, in table order, whose pattern is
\* in the error message, that has a fix and whose old string is in the code
\* (0 if none).
RECURSIVE FirstApplicableFrom(_, _, _)
FirstApplicableFrom(code, error_message, k) ==
  IF k > Len(error_fixes) THEN 0
  ELSE IF /\ Contains(error_message, NoAttribute(error_fixes[k].old))
          /\ error_fixes[k].fix
          /\ Contains(code, error_fixes[k].old)
       THEN k
       ELSE FirstApplicableFrom(code, error_message, k + 1)

apply_deterministic_fixes(code, error_message) ==
  LET k == FirstApplicableFrom(code, error_message, 1) IN
  IF k = 0 THEN code
  ELSE Replace(code, error_fixes[k].old, error_fixes[k].new)

\* Fixer._apply_pattern_fixes: the first rewrite that changes the code
apply_pattern_fixes(code) ==
  LET ref   == SubRefPattern(code, TRUE)
      last  == SubByteOrder(code, "MOST-SIGNIFICANT-BYTE-LAST")
      first == SubByteOrder(code, "MOST-SIGNIFICANT-BYTE-FIRST")
      save  == SubSavePattern(code)
  IN IF ref # code THEN ref
     ELSE IF last # code THEN last
     ELSE IF first # code THEN first
     ELSE IF SearchSavePattern(code) /\ save # code THEN save
     ELSE code

\* The cleaning of an LLM response: the text between the code fences, if
\* any, then strip().
CleanResponse(text) ==
  Strip(IF Contains(text, <<"FENCE", "python">>)
        THEN SplitFirst(SplitSecond(text, <<"FENCE", "python">>), <<"FENCE">>)
        ELSE IF Contains(text, <<"FENCE">>)
        THEN SplitSecond(text, <<"FENCE">>)
        ELSE text)

\* Fixer._is_repeated_error: the key is the first 200 characters
SignatureLength == 200

ErrorKey(error_text) ==
  IF Len(error_text) > SignatureLength THEN SubSeq(error_text, 1, SignatureLength)
  ELSE error_text

UnderBudgetLate(n, maxA) == n <= maxA + 1

\* fix_code's max-attempts check: not "self.fix_attempts > self.max_attempts"
UnderBudget(n, maxA) == n <= maxA

\* The Tier 3 retry loop (for internal_attempt in range(2)) with the LLM's
\* two possible responses r1, r2: [raises, text].  llm counts the
\* generate_content calls, fixed holds the value of fixed_code after each
\* call that returned.
TierThreeNoRetry(code, r1, r2) ==
  IF r1.raises THEN [out |-> code, llm |-> 1, raised |-> TRUE, fixed |-> <<>>]
  ELSE [out |-> CleanResponse(r1.text), llm |-> 1, raised |-> FALSE,
        fixed |-> <<CleanResponse(r1.text)>>]

TierThreeRaising(code, r1, r2) ==
  LET f1 == CleanResponse(r1.text)
      f2 == CleanResponse(r2.text)
  IN IF r1.raises THEN [out |-> <<>>, llm |-> 1, raised |-> TRUE, fixed |-> <<>>]
     ELSE IF f1 # code THEN [out |-> f1, llm |-> 1, raised |-> FALSE, fixed |-> <<f1>>]
     ELSE IF r2.raises THEN [out |-> f1, llm |-> 2, raised |-> TRUE, fixed |-> <<f1>>]
     ELSE [out |-> f2, llm |-> 2, raised |-> FALSE, fixed |-> <<f1, f2>>]

TierThreeLoop(code, r1, r2) ==
  LET f1 == CleanResponse(r1.text)
      f2 == CleanResponse(r2.text)
  IN IF r1.raises THEN [out |-> code, llm |-> 1, raised |-> TRUE, fixed |-> <<>>]
     ELSE IF f1 # code THEN [out |-> f1, llm |-> 1, raised |-> FALSE, fixed |-> <<f1>>]
     ELSE IF r2.raises THEN [out |-> code, llm |-> 2, raised |-> TRUE, fixed |-> <<f1>>]
     ELSE [out |-> f2, llm |-> 2, raised |-> FALSE, fixed |-> <<f1, f2>>]

TierOneSkipped(code, error_message) == FALSE

\* "if fixed_code != code" after Tier 1 and after Tier 2
TierOneChanges(code, error_message) ==
  apply_deterministic_fixes(code, error_message) # code

\* Fixer.fix_code on a Fixer in state (attempts, maxA, prev, deep).  The
\* result records the call: n (fix_attempts after the increment), out (the
\* returned code), tiers (the tiers tried, in order), efm (whether the
\* error feedback store was queried), llm (LLM calls made), repeated (the
\* repeated-error flag), prev (previous_errors after the call), llmraised
\* (an LLM call raised) and fixed (fixed_code after each LLM call).
fix_code(attempts, maxA, prev, deep, code, err, r1, r2) ==
  LET n    == attempts + 1
      base == [n |-> n, code |-> code, err |-> err, out |-> code, tiers |-> <<>>,
               efm |-> FALSE, llm |-> 0, repeated |-> FALSE, prev |-> prev,
               llmraised |-> FALSE, fixed |-> <<>>]
      \* error_text of an error that is a dict (type, message, line,
      \* traceback) or a plain string (message only)
      error_text == IF err.isdict THEN err.traceback \o <<" ">> \o err.message
                    ELSE err.message
      key  == ErrorKey(error_text)
      t3   == TierThreeLoop(code, r1, r2)
  IN IF ~UnderBudget(n, maxA) THEN base
     ELSE IF TierOneChanges(code, err.message)
     THEN [base EXCEPT !.out = apply_deterministic_fixes(code, err.message),
                       !.tiers = <<1>>]
     ELSE IF apply_pattern_fixes(code) # code
     THEN [base EXCEPT !.out = apply_pattern_fixes(code), !.tiers = <<1, 2>>]
     ELSE [base EXCEPT !.out = t3.out, !.tiers = <<1, 2, 3>>, !.efm = deep,
                       !.llm = t3.llm, !.llmraised = t3.raised,
                       !.fixed = t3.fixed,
                       !.repeated = (\E j \in 1..Len(prev) : prev[j] = key),
                       !.prev = IF \E j \in 1..Len(prev) : prev[j] = key
                                THEN prev ELSE Append(prev, key)]

ReachesTierThree(attempts, maxA, code, err) ==
  /\ UnderBudget(attempts + 1, maxA)
  /\ ~TierOneChanges(code, err.message)
  /\ apply_pattern_fixes(code) = code

\* ------------------------------------------------------------ Executor

\* re.search(r'(\w+Error):', stderr): the first error word (an atom that
\* matches \w+Error) followed by ':'
RECURSIVE FirstErrorWordFrom(_, _)
FirstErrorWordFrom(s, i) ==
  IF i > Len(s) THEN "Unknown"
  ELSE IF s[i] \in {"AttributeError", "TypeError", "TimeoutError", "PermissionError",
                    "FileNotFoundError"}
          /\ At(s, i + 1) = ":" THEN s[i]
  ELSE FirstErrorWordFrom(s, i + 1)

\* re.search(r'line (\d+)', stderr): the first number after 'line '
RECURSIVE FirstLineNumberFrom(_, _)
FirstLineNumberFrom(s, i) ==
  IF i > Len(s) THEN "None"
  ELSE IF s[i] = "line" /\ At(s, i + 1) = " " /\ At(s, i + 2) \in {"3", "4", "7", "42"}
  THEN s[i + 2]
  ELSE FirstLineNumberFrom(s, i + 1)

\* stderr.strip().split('\n')[-1]
RECURSIVE LastLine(_)
LastLine(s) ==
  LET i == FindFrom(s, <<"NL">>, 1) IN
  IF i = 0 THEN s ELSE LastLine(Tail0(s, i + 1))

\* Executor._parse_error
parse_error(stderr) ==
  [type      |-> FirstErrorWordFrom(stderr, 1),
   message   |-> LastLine(Strip(stderr)),
   line      |-> FirstLineNumberFrom(stderr, 1),
   traceback |-> stderr]

\* except Exception as e
HarnessInfo(exc) ==
  [type |-> exc.type, message |-> exc.message, line |-> "None", traceback |-> exc.message]

NoInfo == [type |-> "", message |-> <<>>, line |-> "None", traceback |-> <<>>]

\* Executor.run_script under an environment env:
\*   write   - whether open(filename, "w") and the write succeed (the
\*             directory of filename exists and is writable)
\*   proc    - what subprocess.run did: "exit0", "nonzero", "timeout" (it
\*             raised TimeoutExpired) or "oserror" (it raised OSError)
\*   stderr  - the captured error stream
\*   logok   - whether error_log.txt could be written
\* The result: raised (an exception left run_script), exc (that exception),
\* success and info (the returned pair).
run_script(env, timeout) ==
  LET writeError == [type |-> "PermissionError", message |-> <<"Permission denied">>]
      procError  == [type |-> "FileNotFoundError", message |-> <<"No such file">>]
      returned(ok, info) == [raised |-> FALSE, exc |-> "", success |-> ok, info |-> info]
  IN IF ~env.write  \* open() is before the try block
     THEN [raised |-> TRUE, exc |-> writeError.type, success |-> FALSE, info |-> NoInfo]
     ELSE IF env.proc = "timeout" THEN \* except subprocess.TimeoutExpired
          returned(FALSE,
                   [type      |-> "TimeoutError",
                    message   |-> <<"Script execution exceeded ", ToString(timeout),
                                    " seconds">>,
                    line      |-> "None",
                    traceback |-> <<"Timeout after ", ToString(timeout), "s">>])
     ELSE IF env.proc = "oserror" THEN returned(FALSE, HarnessInfo(procError))
     ELSE IF env.proc = "nonzero"
     THEN IF env.logok THEN returned(FALSE, parse_error(env.stderr))
          ELSE returned(FALSE, HarnessInfo(writeError))
     ELSE returned(TRUE, [NoInfo EXCEPT !.message = <<"stdout">>])

\* -------------------------------------------------------------- JSON

\* A value of Python that JSON can hold: kind "scalar" (None, a string or a
\* number) with its atom, "list" with its items, "dict" with its keys and,
\* in items, their values in the same order.
JValue(kind, atom, keys, items) ==
  [kind |-> kind, atom |-> atom, keys |-> keys, items |-> items]

\* Python: json.loads(text).  A text is a sequence of JSON tokens: the
\* structural "{", "}", "[", "]", ":", ",", white space, atoms that are no
\* JSON (a code fence, words of prose), and one atom for each string
\* literal, number ("0", "1", ...) or null.  Decoding fails
\* (JSONDecodeError) on anything else, on an empty text and on extra data
\* after the value.
json_loads(text) ==
  LET s == SelectSeq(text, LAMBDA a : a \notin {" ", "NL"})
      NoJson == {"}", "]", ":", ",", "FENCE", "json", "Here", "is", "the", "plan"}
      Bad == [ok |-> FALSE, end |-> 0,
              val |-> JValue("none", "", <<>>, <<>>)]
      RECURSIVE Value(_), Elements(_, _), Members(_, _, _)
      Value(i) ==
        IF i > Len(s) THEN Bad
        ELSE IF s[i] = "[" THEN
          IF At(s, i + 1) = "]"
          THEN [ok |-> TRUE, end |-> i + 1,
                val |-> JValue("list", "", <<>>, <<>>)]
          ELSE Elements(i + 1, <<>>)
        ELSE IF s[i] = "{" THEN
          IF At(s, i + 1) = "}"
          THEN [ok |-> TRUE, end |-> i + 1,
                val |-> JValue("dict", "", <<>>, <<>>)]
          ELSE Members(i + 1, <<>>, <<>>)
        ELSE IF s[i] \in NoJson THEN Bad
        ELSE [ok |-> TRUE, end |-> i,
              val |-> JValue("scalar", s[i], <<>>, <<>>)]
      Elements(i, items) ==
        LET v == Value(i) IN
        IF ~v.ok THEN Bad
        ELSE IF At(s, v.end + 1) = "," THEN Elements(v.end + 2, Append(items, v.val))
        ELSE IF At(s, v.end + 1) = "]"
        THEN [ok |-> TRUE, end |-> v.end + 1,
              val |-> JValue("list", "", <<>>, Append(items, v.val))]
        ELSE Bad
      Members(i, keys, items) ==
        LET k == Value(i)
            v == Value(i + 2)
        IN IF ~k.ok \/ k.val.kind # "scalar" \/ At(s, i + 1) # ":" \/ ~v.ok THEN Bad
           ELSE IF At(s, v.end + 1) = ","
           THEN Members(v.end + 2, Append(keys, k.val.atom), Append(items, v.val))
           ELSE IF At(s, v.end + 1) = "}"
           THEN [ok |-> TRUE, end |-> v.end + 1,
                 val |-> JValue("dict", "", Append(keys, k.val.atom),
                                Append(items, v.val))]
           ELSE Bad
      top == Value(1)
  IN IF top.ok /\ top.end = Len(s) THEN top ELSE Bad

\* Python: json.dump(value, f, indent=2), the text written
json_dumps(value) ==
  LET RECURSIVE Dump(_), Joined(_, _, _)
      Dump(v) ==
        IF v.kind = "list" THEN <<"[">> \o Joined(v, 1, FALSE) \o <<"]">>
        ELSE IF v.kind = "dict" THEN <<"{">> \o Joined(v, 1, TRUE) \o <<"}">>
        ELSE <<v.atom>>
      Joined(v, i, keyed) ==
        IF i > Len(v.items) THEN <<>>
        ELSE (IF i > 1 THEN <<",", "NL">> ELSE <<"NL">>)
             \o (IF keyed THEN <<v.keys[i], ":", " ">> ELSE <<>>)
             \o Dump(v.items[i])
             \o (IF i = Len(v.items) THEN <<"NL">> ELSE <<>>)
             \o Joined(v, i + 1, keyed)
  IN Dump(value)

\* Python: d.get(key, default) and d[key] = item on a dict value
DictGet(d, key, default) ==
  IF \E i \in 1..Len(d.keys) : d.keys[i] = key
  THEN d.items[CHOOSE i \in 1..Len(d.keys) : d.keys[i] = key]
  ELSE default

DictSet(d, key, item) ==
  IF \E i \in 1..Len(d.keys) : d.keys[i] = key
  THEN [d EXCEPT !.items[CHOOSE i \in 1..Len(d.keys) : d.keys[i] = key] = item]
  ELSE [d EXCEPT !.keys = Append(d.keys, key), !.items = Append(d.items, item)]

\* ------------------------------------------------------------ planner

\* Planner._clean_json
clean_json(text) ==
  IF Contains(text, <<"FENCE", "json">>)
  THEN SplitFirst(SplitSecond(text, <<"FENCE", "json">>), <<"FENCE">>)
  ELSE IF Contains(text, <<"FENCE">>)
  THEN SplitFirst(SplitSecond(text, <<"FENCE">>), <<"FENCE">>)
  ELSE text

\* Planner._parse_response: the decoded value, or on JSONDecodeError the
\* dict {"description": "Failed to parse plan", "checklist": ["Error
\* parsing LLM output", text]}; raw is the text json.loads was given
parse_response(text) ==
  LET t == clean_json(text)
      r == json_loads(t)
  IN IF r.ok THEN [parsed |-> TRUE, raw |-> t, val |-> r.val]
     ELSE [parsed |-> FALSE, raw |-> t,
           val |-> JValue("dict", "", <<"description", "checklist">>,
                          <<JValue("scalar", "Failed to parse plan", <<>>, <<>>),
                            JValue("list", "", <<>>,
                                   <<JValue("scalar", "Error parsing LLM output", <<>>, <<>>),
                                     JValue("text", "", <<>>, t)>>)>>)]

\* ------------------------------------------------- Error Feedback Store

\* The error messages of the records and queries here, each with its
\* characters, in the order in which Python compares the strings
MessageChars ==
  <<[text |-> "", chars |-> <<>>],
    [text |-> "abcd", chars |-> <<"a", "b", "c", "d">>],
    [text |-> "abce", chars |-> <<"a", "b", "c", "e">>],
    [text |-> "abxy", chars |-> <<"a", "b", "x", "y">>],
    [text |-> "wxyz", chars |-> <<"w", "x", "y", "z">>]>>

\* difflib.get_close_matches(word, possibilities, n, cutoff=0.6): the
\* possibilities x with SequenceMatcher(a=x, b=word).ratio() >= cutoff,
\* the n best of them by (ratio, x), best first.  ratio is 2.0 * M / T, M
\* the total size of the matching blocks (the longest block that starts
\* earliest in a, then earliest in b, then the same left and right of it)
\* and T the two lengths together.
get_close_matches(word, possibilities, n) ==
  LET Rank(m) == CHOOSE r \in 1..Len(MessageChars) : MessageChars[r].text = m
      b == MessageChars[Rank(word)].chars
      RECURSIVE Matches(_, _, _, _, _)
      Matches(a, alo, ahi, blo, bhi) ==
        LET Fits(i, j, k) ==
              /\ k > 0 /\ i + k <= ahi /\ j + k <= bhi
              /\ \A d \in 0..(k - 1) : a[i + d] = b[j + d]
            blocks == {c \in (alo..(ahi - 1)) \X (blo..(bhi - 1)) \X (1..(ahi - alo)) :
                         Fits(c[1], c[2], c[3])}
            best == CHOOSE c \in blocks :
                      \A o \in blocks :
                        \/ c[3] > o[3]
                        \/ c[3] = o[3] /\ c[1] < o[1]
                        \/ c[3] = o[3] /\ c[1] = o[1] /\ c[2] <= o[2]
        IN IF blocks = {} THEN 0
           ELSE best[3] + Matches(a, alo, best[1], blo, best[2])
                        + Matches(a, best[1] + best[3], ahi, best[2] + best[3], bhi)
      M(x) == LET a == MessageChars[Rank(x)].chars
              IN Matches(a, 1, Len(a) + 1, 1, Len(b) + 1)
      T(x) == Len(MessageChars[Rank(x)].chars) + Len(b)
      \* ratio() >= 0.6, and "if not T: return 1.0"
      Close(x) == T(x) = 0 \/ 10 * M(x) >= 3 * T(x)
      \* (ratio(x), x) > (ratio(y), y)
      Better(x, y) ==
        LET rx == IF T(x) = 0 THEN <<1, 1>> ELSE <<2 * M(x), T(x)>>
            ry == IF T(y) = 0 THEN <<1, 1>> ELSE <<2 * M(y), T(y)>>
        IN \/ rx[1] * ry[2] > ry[1] * rx[2]
           \/ rx[1] * ry[2] = ry[1] * rx[2] /\ Rank(x) > Rank(y)
      RECURSIVE Largest(_, _)
      Largest(rest, k) ==
        IF k = 0 \/ rest = {} THEN <<>>
        ELSE LET top == CHOOSE i \in rest :
                          \A o \in rest : ~Better(possibilities[o], possibilities[i])
             IN <<possibilities[top]>> \o Largest(rest \ {top}, k - 1)
  IN Largest({i \in 1..Len(possibilities) : Close(possibilities[i])}, n)

\* ErrorFeedbackManager.get_similar_errors: for each close match the first
\* record with that message ("for error in past_errors: if
\* error.get("error_message") == match: ... break")
get_similar_errors(data, error_message, limit) ==
  LET past_errors == DictGet(data, "errors", JValue("list", "", <<>>, <<>>)).items
      Message(e) == DictGet(e, "error_message", JValue("scalar", "", <<>>, <<>>)).atom
      error_messages == [i \in 1..Len(past_errors) |-> Message(past_errors[i])]
      close_matches == get_close_matches(error_message, error_messages, limit)
      Is(i, match) == DictGet(past_errors[i], "error_message",
                              JValue("scalar", "null", <<>>, <<>>)).atom = match
      RECURSIVE Similar(_)
      Similar(k) ==
        IF k > Len(close_matches) THEN <<>>
        ELSE (IF \E i \in 1..Len(past_errors) : Is(i, close_matches[k])
              THEN <<past_errors[CHOOSE i \in 1..Len(past_errors) :
                                   /\ Is(i, close_matches[k])
                                   /\ \A j \in 1..(i - 1) : ~Is(j, close_matches[k])]>>
              ELSE <<>>)
             \o Similar(k + 1)
  IN Similar(1)

\* ErrorFeedbackManager.__init__ and load_feedback: the default structure,
\* or what the file holds once its errors and metadata are made a list
\* and a dict with every default key; any exception of the read keeps the
\* default structure
load_feedback(file) ==
  LET null == JValue("scalar", "null", <<>>, <<>>)
      zero == JValue("scalar", "0", <<>>, <<>>)
      default_meta ==
        JValue("dict", "",
               <<"total_errors", "total_fixes_attempted", "total_successful_fixes",
                 "last_updated">>,
               <<zero, zero, zero, null>>)
      default == JValue("dict", "", <<"errors", "metadata">>,
                        <<JValue("list", "", <<>>, <<>>), default_meta>>)
      loaded == json_loads(file.text)
      with_errors ==
        IF DictGet(loaded.val, "errors", null).kind # "list"
        THEN DictSet(loaded.val, "errors", JValue("list", "", <<>>, <<>>))
        ELSE loaded.val
      RECURSIVE Merged(_, _)
      Merged(meta, i) ==
        IF i > Len(default_meta.keys) THEN meta
        ELSE Merged(DictSet(meta, default_meta.keys[i],
                            DictGet(meta, default_meta.keys[i], default_meta.items[i])),
                    i + 1)
      metadata == DictGet(with_errors, "metadata", null)
  IN IF ~file.exists \/ ~loaded.ok \/ loaded.val.kind # "dict" THEN default
     ELSE IF metadata.kind # "dict" THEN DictSet(with_errors, "metadata", default_meta)
     ELSE DictSet(with_errors, "metadata", Merged(metadata, 1))

\* ------------------------------------------------------------ syntax

\* PreGenerationValidator._check_syntax: ast.parse(code) succeeds.  Of
\* Python's grammar the model keeps the nesting of parentheses and the
\* pairing of string quotes, which every text that parses satisfies.
RECURSIVE ParensBalanced(_, _, _)
ParensBalanced(s, i, depth) ==
  IF i > Len(s) THEN depth = 0
  ELSE IF s[i] = "(" THEN ParensBalanced(s, i + 1, depth + 1)
  ELSE IF s[i] = ")" THEN depth > 0 /\ ParensBalanced(s, i + 1, depth - 1)
  ELSE ParensBalanced(s, i + 1, depth)

Parses(code) ==
  /\ ParensBalanced(code, 1, 0)
  /\ Cardinality({i \in 1..Len(code) : code[i] = "DQ"}) % 2 = 0
  /\ Cardinality({i \in 1..Len(code) : code[i] = "SQ"}) % 2 = 0
  /\ ~Contains(code, <<"FENCE">>)

\* --------------------------------------------------------- validator

\* knowledge_base.HALLUCINATION_FIXES, in the dict's order
HALLUCINATION_FIXES == <<
  [wrong |-> <<"new_", "Swc", "InternalBehavior">>, correct |-> <<"new_", "InternalBehavior">>],
  [wrong |-> <<"new_", "Runnable", "Entity">>, correct |-> <<"new_", "Runnable">>],
  [wrong |-> <<"new_", "DataReadAcces", "s">>, correct |-> <<"new_", "DataReadAcces">>],
  [wrong |-> <<"new_", "DataWriteAcces", "s">>, correct |-> <<"new_", "DataWriteAcces">>],
  [wrong |-> <<"new_", "Variable", "DataPrototype">>, correct |-> <<"new_", "DataElement">>],
  [wrong |-> <<"new_", "Service", "Event">>, correct |-> <<"new_", "Event">>],
  [wrong |-> <<"new_", "Sw", "Component", "Prototype">>, correct |-> <<"new_", "Component">>],
  [wrong |-> <<"new_", "Component", "Prototype">>, correct |-> <<"new_", "Component">>],
  [wrong |-> <<"new_", "Some", "Ip", "Service", "InterfaceDeployment">>,
   correct |-> <<"new_", "Some", "ip", "Service", "InterfaceDeployment">>],
  [wrong |-> <<"new_", "Some", "Ip", "Event", "Deployment">>,
   correct |-> <<"new_", "Some", "ip", "Event", "Deployment">>],
  [wrong |-> <<"new_", "Some", "Ip", "Method", "Deployment">>,
   correct |-> <<"new_", "Some", "ip", "Method", "Deployment">>],
  [wrong |-> <<"new_", "SwcToEcuMapping">>, correct |-> <<"new_", "SwMapping">>],
  [wrong |-> <<"new_", "SoftwareComponentToEcuMapping">>, correct |-> <<"new_", "SwMapping">>],
  [wrong |-> <<"set_", "target", "DataPrototype">>, correct |-> <<"set_", "target", "DataElement">>],
  [wrong |-> <<"set_", "variable", "DataPrototype">>, correct |-> <<"set_", "target", "DataPrototype">>],
  [wrong |-> <<"set_", "communicationCluster">>, correct |-> <<"set_", "commController">>],
  [wrong |-> <<"new_", "SignalServiceTranslationProp", "s">>,
   correct |-> <<"new_", "SignalServiceTranslationProp">>] >>

\* Python: method_name in HALLUCINATION_FIXES
IsHallucination(name) ==
  \E k \in 1..Len(HALLUCINATION_FIXES) : HALLUCINATION_FIXES[k].wrong = name

\* "for wrong, correct in HALLUCINATION_FIXES.items(): if wrong in code:
\* code = code.replace(wrong, correct)", from entry k on; fixes counts the
\* entries appended to the list of applied fixes
RECURSIVE FixHallucinationsFrom(_, _)
FixHallucinationsFrom(code, k) ==
  IF k > Len(HALLUCINATION_FIXES) THEN [code |-> code, fixes |-> 0]
  ELSE IF Contains(code, HALLUCINATION_FIXES[k].wrong)
       THEN LET r == FixHallucinationsFrom(
                       Replace(code, HALLUCINATION_FIXES[k].wrong,
                               HALLUCINATION_FIXES[k].correct), k + 1)
            IN [code |-> r.code, fixes |-> r.fixes + 1]
       ELSE FixHallucinationsFrom(code, k + 1)

FixHallucinations(code) == FixHallucinationsFrom(code, 1)

\* The rewrites after the table: reference patterns, save(), ByteOrder
FixPatterns(r) ==
  LET c1 == IF \E i \in 1..Len(r.code) : RefPatternMatch(r.code, i, FALSE).ok
            THEN [code |-> SubRefPattern(r.code, FALSE), fixes |-> r.fixes + 1] ELSE r
      c2 == IF SearchSavePattern(c1.code)
            THEN [code |-> SubSavePattern(c1.code), fixes |-> c1.fixes + 1] ELSE c1
  IN IF SearchByteOrderString(c2.code)
     THEN [code |-> SubByteOrder(SubByteOrder(c2.code, "MOST-SIGNIFICANT-BYTE-LAST"),
                                   "MOST-SIGNIFICANT-BYTE-FIRST"), fixes |-> c2.fixes + 1]
     ELSE c2

\* PreGenerationValidator._apply_auto_fixes: (fixed_code, fixes_applied)
apply_auto_fixes(code) == FixPatterns(FixHallucinations(code))

\* ValidationPipeline.quick_fix: (code, fixes)
quick_fix(code) == FixPatterns(FixHallucinations(code))

\* ast: a Call node whose func is an Attribute starts at the "." at i;
\* its attr is the identifier between the "." and the "("
CallAt(s, i) ==
  LET e == WordRunEnd(s, i + 1) IN
  At(s, i) = "." /\ e >= i + 1 /\ At(s, e + 1) = "("

MethodName(s, i) == SubSeq(s, i + 1, WordRunEnd(s, i + 1))

\* One issue of the given category for each of the n places found
Issues(n, category) == [k \in 1..n |-> category]

check_syntax_skipped(code) == <<>>

\* PreGenerationValidator._check_syntax
check_syntax(code) == IF Parses(code) THEN <<>> ELSE <<"SYNTAX">>

\* PreGenerationValidator._check_hallucinations
check_hallucinations(code) ==
  LET HallucinatedCallAt(s, i) == CallAt(s, i) /\ IsHallucination(MethodName(s, i))
  IN Issues(Cardinality({i \in 1..Len(code) : HallucinatedCallAt(code, i)}), "HALLUCINATION")

\* PreGenerationValidator._check_reference_patterns:
\* r'\.new_(\w+)Ref\(\)\.set_value\('
check_reference_patterns(code) ==
  LET RefCheckAt(s, i) ==
        LET e == WordRunEnd(s, i + 2) IN
        /\ At(s, i) = "." /\ At(s, i + 1) = "new_"
        /\ e >= i + 3 /\ s[e] = "Ref"
        /\ At(s, e + 1) = "(" /\ At(s, e + 2) = ")" /\ At(s, e + 3) = "."
        /\ At(s, e + 4) = "set_" /\ At(s, e + 5) = "value" /\ At(s, e + 6) = "("
  IN Issues(Cardinality({i \in 1..Len(code) : RefCheckAt(code, i)}), "REFERENCE")

\* UnifiedKnowledgeBase.method_exists, on the method names of the library
method_exists(methods, method_name) == method_name \in methods

\* PreGenerationValidator._check_method_calls
check_method_calls(methods, code) ==
  LET UnknownCallAt(s, i) ==
        /\ CallAt(s, i)
        /\ s[i + 1] \in {"new_", "set_", "get_"}
        /\ ~IsHallucination(MethodName(s, i))
        /\ ~method_exists(methods, MethodName(s, i))
  IN Issues(Cardinality({i \in 1..Len(code) : UnknownCallAt(code, i)}), "SYMBOL")

\* r'autosarfactory\.read\(([^)]+)\)' matches at i; rep is group 1
ReadArgMatch(s, i) ==
  LET a  == i + 4
      ae == NonCloseRunEnd(s, a)
  IN IF /\ At(s, i) = "autosarfactory" /\ At(s, i + 1) = "." /\ At(s, i + 2) = "read"
        /\ At(s, i + 3) = "(" /\ ae >= a /\ At(s, ae + 1) = ")"
     THEN [ok |-> TRUE, end |-> ae + 1, rep |-> SubSeq(s, a, ae)]
     ELSE NoMatch

\* PreGenerationValidator._check_common_mistakes: save() with arguments,
\* a ByteOrder string, and read() without a list, that is a match of
\* r'autosarfactory\.read\([^[\]]+\)' and a first match of the pattern
\* above whose stripped group does not start with '['
check_common_mistakes(code) ==
  LET ReadNoBracketAt(i) ==
        /\ At(code, i) = "autosarfactory" /\ At(code, i + 1) = "."
        /\ At(code, i + 2) = "read" /\ At(code, i + 3) = "("
        /\ \E j \in (i + 5)..Len(code) :
             code[j] = ")" /\ \A k \in (i + 4)..(j - 1) : code[k] \notin {"[", "]"}
      ReadWithoutList ==
        /\ \E i \in 1..Len(code) : ReadNoBracketAt(i)
        /\ \E i \in 1..Len(code) :
             /\ ReadArgMatch(code, i).ok
             /\ \A j \in 1..(i - 1) : ~ReadArgMatch(code, j).ok
             /\ LET g == Strip(ReadArgMatch(code, i).rep) IN g = <<>> \/ g[1] # "["
  IN (IF SearchSavePattern(code) THEN <<"SEMANTIC">> ELSE <<>>)
     \o (IF SearchByteOrderString(code) THEN <<"TYPE">> ELSE <<>>)
     \o (IF ReadWithoutList THEN <<"SEMANTIC">> ELSE <<>>)

\* The issues validate collects before any auto-fix (all of severity ERROR)
CollectIssues(methods, code) ==
  IF check_syntax(code) # <<>> THEN check_syntax(code)
  ELSE check_hallucinations(code) \o check_reference_patterns(code)
       \o check_method_calls(methods, code) \o check_common_mistakes(code)

NoFixedCode == [some |-> FALSE, code |-> <<>>]

\* PreGenerationValidator.validate(code, auto_fix); is_valid is
\* all(i.severity != ERROR for i in remaining_issues)
validate(methods, code, auto_fix) ==
  LET issues == CollectIssues(methods, code)
      fix    == apply_auto_fixes(code)
  IN IF check_syntax(code) # <<>>
     THEN [is_valid |-> FALSE, issues |-> issues, fixed_code |-> NoFixedCode,
           fixes_applied |-> 0]
     ELSE IF auto_fix /\ fix.fixes > 0
     THEN [is_valid |-> (CollectIssues(methods, fix.code) = <<>>),
           issues |-> CollectIssues(methods, fix.code),
           fixed_code |-> [some |-> TRUE, code |-> fix.code],
           fixes_applied |-> fix.fixes]
     ELSE [is_valid |-> (issues = <<>>), issues |-> issues, fixed_code |-> NoFixedCode,
           fixes_applied |-> 0]

\* ValidationResult.error_count
error_count(result) == Len(result.issues)

\* ------------------------------------------------------ API validator

\* APIValidator._infer_variable_type(code, var_name) on the knowledge base
\* kb, a sequence of classes [name, factory, setters] in the order of the
\* file, factory a sequence of [method, return_type].  Names are atom
\* sequences.  The result is [type, how]: how the type was found ("factory":
\* an assignment from a new_ call, "module": from autosarfactory.read,
\* "name": a type hint contained in the lower-cased variable name), or
\* "none" for None.
infer_variable_type(kb, code, var_name) ==
  LET After[j \in 1..(Len(code) + 1)] ==
        IF j <= Len(code) /\ code[j] = " " THEN After[j + 1] ELSE j
      \* rf'{var_name}\s*=\s*' matches at i and ends before the result
      Assign[i \in 1..Len(code)] ==
        IF MatchAt(code, var_name, i) /\ At(code, After[i + Len(var_name)]) = "="
        THEN After[After[i + Len(var_name)] + 1] ELSE 0
      \* r'\w+\.new_(\w+)\s*\(' from k on
      Factory[k \in 0..(Len(code) + 1)] ==
        LET e  == WordRunEnd(code, k)
            e2 == WordRunEnd(code, e + 3)
        IN /\ k >= 1 /\ e >= k
           /\ At(code, e + 1) = "." /\ At(code, e + 2) = "new_"
           /\ e2 >= e + 3 /\ At(code, After[e2 + 1]) = "("
      Module[k \in 0..(Len(code) + 1)] ==
        /\ k >= 1
        /\ At(code, k) = "autosarfactory" /\ At(code, k + 1) = "."
        /\ \/ At(code, k + 2) = "read" /\ At(code, After[k + 3]) = "("
           \/ /\ At(code, k + 2) = "new_" /\ At(code, k + 3) = "file"
              /\ At(code, After[k + 4]) = "("
      Min(S) == CHOOSE x \in S : \A y \in S : x <= y
      \* "return fm['return_type']" of the first class, and in it the first
      \* factory method, named new_<potential_type>; else potential_type
      ReturnOf(factory, method) ==
        factory[Min({m \in 1..Len(factory) : factory[m].method = method})].return_type
      LookupIn(owners, potential_type) ==
        IF owners = {} THEN potential_type
        ELSE ReturnOf(kb[Min(owners)].factory, <<"new_">> \o potential_type)
      Lookup(potential_type) ==
        LookupIn({c \in 1..Len(kb) :
                    \E m \in 1..Len(kb[c].factory) :
                      kb[c].factory[m].method = <<"new_">> \o potential_type},
                 potential_type)
      ByFactory(e) == Lookup(SubSeq(code, e + 3, WordRunEnd(code, e + 3)))
      ByModule(k) == IF At(code, k + 2) = "read" THEN <<"AUTOSAR">> ELSE <<"ARPackage">>
      \* var_name.lower(), character by character
      Spell(a) ==
        CASE a = "signal" -> <<"s", "i", "g", "n", "a", "l">>
          [] a = "package" -> <<"p", "a", "c", "k", "a", "g", "e">>
          [] a = "pkg" -> <<"p", "k", "g">>
          [] a = "obj" -> <<"o", "b", "j">>
          [] a = "my_Frame" -> <<"m", "y", "_", "f", "r", "a", "m", "e">>
          [] OTHER -> <<a>>
      var_lower == IF var_name = <<>> THEN <<>> ELSE Spell(var_name[1])
      type_hints ==
        << [hint |-> <<"c", "l", "u", "s", "t", "e", "r">>, type |-> <<"CanCluster">>],
           [hint |-> <<"f", "r", "a", "m", "e">>, type |-> <<"CanFrame">>],
           [hint |-> <<"s", "i", "g", "n", "a", "l">>, type |-> <<"ISignal">>],
           [hint |-> <<"p", "d", "u">>, type |-> <<"ISignalIPdu">>],
           [hint |-> <<"s", "w", "c">>, type |-> <<"ApplicationSwComponentType">>],
           [hint |-> <<"c", "o", "m", "p", "o", "n", "e", "n", "t">>,
            type |-> <<"ApplicationSwComponentType">>],
           [hint |-> <<"i", "n", "t", "e", "r", "f", "a", "c", "e">>,
            type |-> <<"SenderReceiverInterface">>],
           [hint |-> <<"p", "o", "r", "t">>, type |-> <<"RPortPrototype">>],
           [hint |-> <<"b", "e", "h", "a", "v", "i", "o", "r">>,
            type |-> <<"SwcInternalBehavior">>],
           [hint |-> <<"r", "u", "n", "n", "a", "b", "l", "e">>,
            type |-> <<"RunnableEntity">>],
           [hint |-> <<"e", "v", "e", "n", "t">>, type |-> <<"TimingEvent">>],
           [hint |-> <<"c", "h", "a", "n", "n", "e", "l">>,
            type |-> <<"CanPhysicalChannel">>],
           [hint |-> <<"r", "o", "o", "t">>, type |-> <<"ARPackage">>],
           [hint |-> <<"p", "k", "g">>, type |-> <<"ARPackage">>],
           [hint |-> <<"p", "a", "c", "k", "a", "g", "e">>, type |-> <<"ARPackage">>] >>
      \* the first line with a match of pattern 1, else of pattern 2, else
      \* the first hint contained in the name
      Decide(firsts, modules, hinted) ==
        IF firsts # {}
        THEN [type |-> ByFactory(WordRunEnd(code, Assign[Min(firsts)])), how |-> "factory"]
        ELSE IF modules # {}
        THEN [type |-> ByModule(Assign[Min(modules)]), how |-> "module"]
        ELSE IF hinted # {}
        THEN [type |-> type_hints[Min(hinted)].type, how |-> "name"]
        ELSE [type |-> <<>>, how |-> "none"]
  IN Decide({i \in 1..Len(code) : Factory[Assign[i]]},
            {i \in 1..Len(code) : Module[Assign[i]]},
            {h \in 1..Len(type_hints) : Contains(var_lower, type_hints[h].hint)})

\* APIValidator.validate_code(code): (is_valid, errors, warnings).  An
\* entry of errors or warnings is [text, how]: the kind of its message
\* and, for a finding about a call, how the receiver's type was found.
\* The "Suggestion" line that may follow an error line is left out.
validate_code(kb, code) ==
  LET After[j \in 1..(Len(code) + 1)] ==
        IF j <= Len(code) /\ code[j] = " " THEN After[j + 1] ELSE j
      Start[j \in 1..Len(code)] ==
        IF j >= 2 /\ IsWord(code[j - 1]) THEN Start[j - 1] ELSE j
      \* _extract_api_calls:
      \* r'(\w+)\.(new_\w+|set_\w+|get_\w+|add_\w+)\s*\(' with its "." at i
      CallAtDot(i) ==
        /\ code[i] = "." /\ i >= 2 /\ IsWord(code[i - 1])
        /\ At(code, i + 1) \in {"new_", "set_", "get_", "add_"}
        /\ WordRunEnd(code, i + 2) >= i + 2
        /\ At(code, After[WordRunEnd(code, i + 2) + 1]) = "("
      \* _validate_method_on_type
      MissingIn(class, method) ==
        IF method[1] = "new_"
        THEN IF \E m \in 1..Len(class.factory) : class.factory[m].method = method
             THEN "" ELSE "has no factory method"
        ELSE IF method[1] = "set_"
        THEN IF method \in class.setters THEN "" ELSE "has no setter method"
        ELSE ""
      Missing(class_name, method) ==
        IF \A c \in 1..Len(kb) : kb[c].name # class_name THEN ""
        ELSE MissingIn(kb[CHOOSE c \in 1..Len(kb) : kb[c].name = class_name], method)
      Judge(how, missing) ==
        IF how = "none"
        THEN [list |-> "warnings", text |-> "Cannot infer type", how |-> "none"]
        ELSE IF missing # ""
        THEN [list |-> "errors", text |-> missing, how |-> how]
        ELSE [list |-> "", text |-> "", how |-> how]
      Typed(t, method) == Judge(t.how, Missing(t.type, method))
      Finding(i) ==
        Typed(infer_variable_type(kb, code, SubSeq(code, Start[i - 1], i - 1)),
              SubSeq(code, i + 1, WordRunEnd(code, i + 2)))
      Keep(f, list) ==
        IF f.list = list THEN <<[text |-> f.text, how |-> f.how]>> ELSE <<>>
      Found[i \in 1..(Len(code) + 1), list \in {"errors", "warnings"}] ==
        IF i > Len(code) THEN <<>>
        ELSE (IF CallAtDot(i) THEN Keep(Finding(i), list) ELSE <<>>) \o Found[i + 1, list]
      \* _check_anti_patterns
      anti_pattern_errors ==
        (IF check_reference_patterns(code) # <<>>
         THEN <<[text |-> "Anti-pattern: Using new_*Ref().set_value()", how |-> ""]>>
         ELSE <<>>)
        \o (IF SearchByteOrderString(code)
            THEN <<[text |-> "Anti-pattern: Using string for ByteOrder", how |-> ""]>>
            ELSE <<>>)
        \o (IF SearchSavePattern(code)
            THEN <<[text |-> "Anti-pattern: save() takes no parameters", how |-> ""]>>
            ELSE <<>>)
        \o (IF ~Contains(code, <<"try", ":">>) \/ ~Contains(code, <<"except">>)
            THEN <<[text |-> "Warning: No error handling", how |-> ""]>>
            ELSE <<>>)
      errors == Found[1, "errors"] \o anti_pattern_errors
  IN [is_valid |-> (Len(errors) = 0), errors |-> errors, warnings |-> Found[1, "warnings"]]

\* ------------------------------------- symbol table and code graph

\* Versions of the target library: whether "import
\* autosarfactory.autosarfactory" succeeds, its classes, for each class its
\* library ancestors (the __mro__ without the class and object) and the
\* members it defines itself, and the module-level functions.
LibraryOne ==
  [importable |-> TRUE,
   classes |-> {"ARObject", "Frame", "CanFrame"},
   mro |-> [c \in {"ARObject", "Frame", "CanFrame"} |->
              CASE c = "ARObject" -> {}
                [] c = "Frame" -> {"ARObject"}
                [] OTHER -> {"Frame", "ARObject"}],
   own |-> [c \in {"ARObject", "Frame", "CanFrame"} |->
              CASE c = "ARObject" -> {"__init__", "get_parent", "get_checksum"}
                [] c = "Frame" -> {"set_frameLength", "new_PduToFrameMapping"}
                [] OTHER -> {"set_canAddressingMode"}],
   functions |-> {"new_file", "read", "save"}]

\* that version, the next release, where Frame no longer has
\* new_PduToFrameMapping, and an environment without the library
Libraries ==
  {LibraryOne,
   [LibraryOne EXCEPT !.own["Frame"] = {"set_frameLength"}],
   [LibraryOne EXCEPT !.importable = FALSE]}

\* inspect.getmembers(cls): the members cls defines or inherits
Members(lib, c) == lib.own[c] \cup UNION {lib.own[b] : b \in lib.mro[c]}

\* ASTIndexer._should_exclude on the names above: a leading "_", or one
\* of the EXCLUSIONS inside the lower-cased name
should_exclude(name) == name \in {"__init__", "get_parent"}

\* ASTIndexer._build_symbol_table
build_symbol_table(lib) ==
  [classes |->
     [c \in {k \in lib.classes : ~should_exclude(k)} |->
        [bases |-> lib.mro[c],
         methods |-> {m \in Members(lib, c) : ~should_exclude(m)}]],
   module_functions |-> {f \in lib.functions : ~should_exclude(f)}]

RECURSIVE TotalMethods(_, _)
TotalMethods(classes, names) ==
  IF names = {} THEN 0
  ELSE LET c == CHOOSE k \in names : TRUE
       IN Cardinality(classes[c].methods) + TotalMethods(classes, names \ {c})

\* SymbolTable.to_dict
to_dict(table) ==
  [classes |-> table.classes,
   module_functions |-> table.module_functions,
   metadata |-> [total_classes |-> Cardinality(DOMAIN table.classes),
                 total_methods |-> TotalMethods(table.classes, DOMAIN table.classes),
                 total_module_functions |-> Cardinality(table.module_functions)]]

\* ASTIndexer._save_cache: to_dict plus metadata.generated_at = now
CacheData(table, now) ==
  LET d == to_dict(table) IN
  [classes |-> d.classes,
   module_functions |-> d.module_functions,
   metadata |-> [total_classes |-> d.metadata.total_classes,
                 total_methods |-> d.metadata.total_methods,
                 total_module_functions |-> d.metadata.total_module_functions,
                 generated_at |-> now]]

\* SymbolTable.from_dict
from_dict(data) ==
  [classes |-> data.classes, module_functions |-> data.module_functions]

\* Node ids: a class name, "Class.method", a function name
ClassNode(c) == [owner |-> "", name |-> c]
MethodNode(c, m) == [owner |-> c, name |-> m]

\* CodeKnowledgeGraph._build_graph (the library declares no return
\* annotations, so there are no RETURNS edges)
build_graph(table) ==
  [nodes |->
     {ClassNode(c) : c \in DOMAIN table.classes}
     \cup UNION {{MethodNode(c, m) : m \in table.classes[c].methods} :
                 c \in DOMAIN table.classes}
     \cup {ClassNode(f) : f \in table.module_functions},
   edges |->
     UNION {{[src |-> ClassNode(c), dst |-> ClassNode(b), type |-> "INHERITS"] :
               b \in table.classes[c].bases \cap DOMAIN table.classes} :
            c \in DOMAIN table.classes}
     \cup UNION {{[src |-> ClassNode(c), dst |-> MethodNode(c, m), type |-> "CONTAINS"] :
                    m \in table.classes[c].methods} :
                 c \in DOMAIN table.classes}]

\* CodeKnowledgeGraph.get_valid_methods_for_class(class_name, True)
RECURSIVE ValidMethodsFrom(_, _, _)
ValidMethodsFrom(g, c, seen) ==
  IF ClassNode(c) \notin g.nodes THEN {}
  ELSE {e.dst.name : e \in {x \in g.edges : x.src = ClassNode(c) /\ x.type = "CONTAINS"}}
       \cup UNION {ValidMethodsFrom(g, e.dst.name, seen \cup {c}) :
                   e \in {x \in g.edges : /\ x.src = ClassNode(c)
                                          /\ x.type = "INHERITS"
                                          /\ x.dst.name \notin seen}}

get_valid_methods_for_class(g, c) == ValidMethodsFrom(g, c, {})

\* CodeKnowledgeGraph.validate_method_call: is_valid
validate_method_call(g, c, m) ==
  ClassNode(c) \in g.nodes /\ m \in get_valid_methods_for_class(g, c)

\* ------------------------------------------------------------ inputs

\* Lines of generated scripts
LineSwc      == <<"obj", ".", "new_", "Swc", "InternalBehavior", "(", "x", ")">>
LineEntity   == <<"obj", ".", "new_", "Runnable", "Entity", "(", "x", ")">>
LineRunnable == <<"obj", ".", "new_", "Runnable", "(", "x", ")">>
LineRef      == <<"t", ".", "new_", "Frame", "Ref", "(", ")", ".", "set_", "value", "(", "frame", ")">>
LineSave     == <<"autosarfactory", ".", "save", "(", ")">>
LineSaveArg  == <<"autosarfactory", ".", "save", "(", "x", ")">>
LineSaveCall == <<"autosarfactory", ".", "save", "(", "f", "(", "x", ")", ")">>
LineByteOrder == <<"s", ".", "set_", "packingByteOrder", "(", "DQ",
                   "MOST-SIGNIFICANT-BYTE-LAST", "DQ", ")">>

LineRefCall  == <<"t", ".", "new_", "Frame", "Ref", "(", ")", ".", "set_", "value",
                  "(", "g", "(", "x", ")", ")">>

\* The code texts handed to fix_code
FixerCodes == {
  LineSwc,
  JoinLines(<<LineSwc, LineEntity, LineSwc>>),
  LineRef,
  LineRefCall,
  LineSaveArg,
  LineSaveCall,
  LineByteOrder,
  JoinLines(<<LineRunnable, LineSave>>) \o <<"NL">> }

\* The errors handed to fix_code: structured errors of the Executor and the
\* plain string of a failed verification
Traceback(n) == <<"Traceback", "NL", "File", " ", "line", " ", n, "NL">>

AttrError(ids, n) ==
  [isdict |-> TRUE, type |-> "AttributeError", line |-> n, traceback |-> Traceback(n),
   message |-> <<"AttributeError", ":", " ">> \o ids]

ErrSwc    == AttrError(NoAttribute(<<"new_", "Swc", "InternalBehavior">>), "3")
ErrVerify == [isdict |-> FALSE, type |-> "", line |-> "", traceback |-> <<>>,
              message |-> <<"Verification Failed", ":", "NL", "Expected signal">>]

FixerErrors ==
  {ErrSwc,
   AttrError(NoAttribute(<<"new_", "Runnable", "Entity">>) \o <<" ">>
             \o NoAttribute(<<"new_", "Swc", "InternalBehavior">>), "4"),
   [isdict |-> TRUE, type |-> "TypeError", line |-> "7", traceback |-> Traceback("7"),
    message |-> <<"TypeError", ":", " ", "bad argument">>],
   ErrVerify}

\* What the repair LLM may answer for a code: the very same text, the same
\* text in a code fence, a rewritten script in a code fence, a text that
\* does not parse, or an exception of the provider.
LLMRaises == [raises |-> TRUE, text |-> <<>>]

LLMResponses(code) ==
  {[raises |-> FALSE, text |-> t] :
     t \in {code,
            <<"FENCE", "python", "NL">> \o code \o <<"NL", "FENCE">>,
            <<"FENCE", "python", "NL">> \o LineRunnable \o <<"NL", "FENCE">>,
            code \o <<"(">>}}
  \cup {LLMRaises}

\* One call of a method on an object
CallLine(name) == <<"obj", ".">> \o name \o <<"(", "x", ")">>

\* The method names of the target library that the scripts here use, as
\* the repository documents them in its API hints
LibraryApi ==
  {HALLUCINATION_FIXES[k].correct : k \in 1..Len(HALLUCINATION_FIXES)}
  \cup {<<"new_", "SignalServiceTranslationProp", "s", "Set">>,
        <<"set_", "frame">>, <<"set_", "packingByteOrder">>}

\* The code texts handed to the validator and to quick_fix
TextCodes ==
  {CallLine(HALLUCINATION_FIXES[k].wrong) : k \in 1..Len(HALLUCINATION_FIXES)}
  \cup {CallLine(HALLUCINATION_FIXES[k].correct) : k \in 1..Len(HALLUCINATION_FIXES)}
  \cup {<<"package", ".", "new_", "SignalServiceTranslationProp", "s", "Set",
          "(", "DQ", "Name", "DQ", ")">>,
        LineRef, LineRefCall, LineSave, LineSaveArg, LineSaveCall,
        LineByteOrder,
        <<"s", ".", "set_", "packingByteOrder", "(", "SQ", "OPAQUE", "SQ", ")">>,
        <<"autosarfactory", ".", "read", "(", "DQ", "a.arxml", "DQ", ")">>,
        <<"autosarfactory", ".", "read", "(", "[", "DQ", "a.arxml", "DQ", "]", ")">>,
        JoinLines(<<LineSwc, LineEntity, LineSwc>>),
        JoinLines(<<LineRunnable, LineRef, LineSaveArg>>),
        LineRunnable \o <<"(">>,
        JoinLines(<<LineEntity, LineSaveArg>>) \o <<"(">>}
  \cup {JoinLines(<<<<"signal", " ", "=", " ", "pkg", ".", "new_", "ISignal",
                      "(", "DQ", "S", "DQ", ")">>,
                    <<"signal", ".", "set_", "lenght", "(", "8", ")">>>>),
        <<"signal", ".", "set_", "lenght", "(", "8", ")">>,
        <<"my_Frame", ".", "new_", "Pdu", " ", "(", "x", ")">>}
  \cup {JoinLines(<<<<"try", ":">>, call, <<"except", " ", "Exception", ":", " ", "pass">>>>) :
          call \in {<<"signal", ".", "set_", "lenght", "(", "8", ")">>,
                    <<"signal", ".", "set_", "length", "(", "8", ")">>,
                    <<"obj", ".", "set_", "length", "(", "8", ")">>}}

\* The knowledge base that _load_knowledge_base returns: {} without a
\* knowledge_graph.json, or the classes of the file
KnowledgeBases ==
  {<<>>,
   <<[name |-> <<"ARPackage">>,
      factory |-> <<[method |-> <<"new_", "ISignal">>, return_type |-> <<"ISignal">>],
                    [method |-> <<"new_", "CanFrame">>, return_type |-> <<"CanFrame">>]>>,
      setters |-> {}],
     [name |-> <<"ISignal">>, factory |-> <<>>, setters |-> {<<"set_", "length">>}],
     [name |-> <<"CanFrame">>,
      factory |-> <<[method |-> <<"new_", "PduToFrameMapping">>,
                     return_type |-> <<"PduToFrameMapping">>]>>,
      setters |-> {<<"set_", "frameLength">>}]>>}

\* ------------------------------------------------------------ state

\* A Fixer instance (one per session) and its last fix_code call
VARIABLES fix_attempts, max_attempts, previous_errors, enable_deep_analysis, call

fixerVars == <<fix_attempts, max_attempts, previous_errors, enable_deep_analysis, call>>

NoCall == [n |-> 0, code |-> <<>>, err |-> ErrVerify, out |-> <<>>, tiers |-> <<>>,
           efm |-> FALSE, llm |-> 0, repeated |-> FALSE, prev |-> <<>>,
           llmraised |-> FALSE, fixed |-> <<>>]

FixerIdle ==
  /\ fix_attempts = 0
  /\ max_attempts = 0
  /\ previous_errors = <<>>
  /\ enable_deep_analysis = FALSE
  /\ call = NoCall

\* The last Executor.run_script call
VARIABLES exec

execVars == <<exec>>

ExecIdle ==
  exec = [called |-> FALSE, script |-> <<>>, filename |-> "", timeout |-> 0,
          env |-> [write |-> TRUE, proc |-> "exit0", stderr |-> <<>>, logok |-> TRUE],
          res |-> [raised |-> FALSE, exc |-> "", success |-> FALSE, info |-> NoInfo]]

\* One session of the UI pipeline (run_generation_pipeline): the repair
\* loop's position and locals, and the Error Feedback Store it writes to.
\*   pc: "run" (about to run the script), "fix" (about to call the Fixer),
\*       "done" (the loop has ended), "crashed" (an exception left the pipeline)
\*   plan: what Planner.create_plan returned (main only; until then, and in
\*         the UI pipeline, what it returns for an empty response)
\* and an ErrorFeedbackManager on its file: feedback_data as the JSON value
\* it is, the file [exists, text], and the last query with its answer and
\* the number of records it was asked over.
VARIABLES pc, attempt, code, consecutive_unchanged, success, run_msg, max_retries,
          stall_reported, efm, runs, fixes, plan,
          feedback_data, feedback_file, lookup

uiVars == <<pc, attempt, code, consecutive_unchanged, success, run_msg, max_retries,
            stall_reported, efm, runs, fixes, plan,
            feedback_data, feedback_file, lookup>>

\* ErrorFeedbackManager.__init__: the empty store
EmptyStore ==
  [errors |-> <<>>,
   metadata |-> [total_errors |-> 0, total_fixes_attempted |-> 0,
                 total_successful_fixes |-> 0]]

UIIdle ==
  /\ pc = "idle"
  /\ attempt = 0
  /\ code = <<>>
  /\ consecutive_unchanged = 0
  /\ success = FALSE
  /\ run_msg = ErrVerify
  /\ max_retries = 0
  /\ stall_reported = FALSE
  /\ efm = EmptyStore
  /\ runs = 0
  /\ fixes = 0
  /\ plan = parse_response(<<>>)
  /\ feedback_data = JValue("none", "", <<>>, <<>>)
  /\ feedback_file = [exists |-> FALSE, text |-> <<>>]
  /\ lookup = [op |-> "none", raised |-> FALSE, message |-> "", limit |-> 0,
               records |-> 0, result |-> <<>>]

\* A text under the validator and quick_fix
VARIABLES text

textVars == <<text>>

NoResult == [is_valid |-> FALSE, issues |-> <<>>, fixed_code |-> NoFixedCode,
             fixes_applied |-> 0]

NewText(c) ==
  [stage |-> "new", code |-> c, table_once |-> <<>>, table_twice |-> <<>>,
   quick_once |-> <<>>, quick_twice |-> <<>>,
   original |-> NoResult, result |-> NoResult, recheck |-> NoResult,
   kb |-> <<>>, api |-> [is_valid |-> FALSE, errors |-> <<>>, warnings |-> <<>>]]

TextIdle == text = NewText(<<>>)

\* The installed library, the clock, the two cache files, the process's
\* symbol table and graph, the outputs of the symbol table builder so
\* far and the last validate_method_call.  A cache file is [exists, state,
\* data]: in state "ok" json.load gives data; "unreadable" makes json.load
\* raise (a file cut off, or one that another session has opened for
\* writing and not yet written); a "malformed" graph cache is JSON whose
\* entries are those of data followed by one that cannot be unpacked.
\* symbol_table.raised: get_symbol_table raised and the process ended.
VARIABLES library, clock, symbol_cache, graph_cache, symbol_table, graph, builds, query

cacheVars == <<library, clock, symbol_cache, graph_cache, symbol_table, graph, builds, query>>

EmptyTable == [classes |-> <<>>, module_functions |-> {}]
EmptyGraph == [nodes |-> {}, edges |-> {}]
NoSymbolCache == [exists |-> FALSE, state |-> "ok", data |-> CacheData(EmptyTable, 0)]
NoGraphCache == [exists |-> FALSE, state |-> "ok", data |-> EmptyGraph]
NoTable == [loaded |-> FALSE, raised |-> FALSE, table |-> EmptyTable]
NoGraph == [loaded |-> FALSE, graph |-> EmptyGraph]
NoQuery == [asked |-> FALSE, class |-> "", method |-> "", valid |-> FALSE,
            lib |-> LibraryOne]

CacheIdle ==
  /\ library = LibraryOne
  /\ clock = 0
  /\ symbol_cache = NoSymbolCache
  /\ graph_cache = NoGraphCache
  /\ symbol_table = NoTable
  /\ graph = NoGraph
  /\ builds = <<>>
  /\ query = NoQuery


\* Several sessions of run_generation_pipeline.  A process holds one
\* ErrorFeedbackManager (_instance), made on the first call of
\* get_error_feedback_manager from the feedback file; every save rewrites
\* the whole file from the instance's feedback_data.
VARIABLES sessions, instances, stored

SessIdle ==
  /\ sessions = [s \in {1, 2} |->
                   [pc |-> "idle", process |-> 1, description |-> "", attempt |-> 0,
                    consecutive_unchanged |-> 0, success |-> FALSE]]
  /\ instances = [p \in {1, 2} |-> [made |-> FALSE, data |-> EmptyStore]]
  /\ stored = [exists |-> FALSE, data |-> EmptyStore]


vars == <<fixerVars, execVars, uiVars, textVars, cacheVars,
                 sessions, instances, stored>>

\* ---------------------------------------------- specification: Fixer
\* One Fixer instance receiving any sequence of fix_code calls.

MaxBudget == 2
MaxCalls == 3

FixerInit ==
  /\ fix_attempts = 0
  /\ max_attempts \in 0..MaxBudget
  /\ previous_errors = <<>>
  /\ enable_deep_analysis \in BOOLEAN
  /\ call = NoCall
  /\ ExecIdle
  /\ UIIdle
  /\ TextIdle
  /\ CacheIdle
  /\ SessIdle

FixCode ==
  /\ fix_attempts < MaxCalls
  /\ \E input \in FixerCodes, err \in FixerErrors :
       LET t3 == ReachesTierThree(fix_attempts, max_attempts, input, err) IN
       \E r1 \in IF t3 THEN LLMResponses(input) ELSE {LLMRaises} :
       \E r2 \in IF t3 /\ ~r1.raises /\ CleanResponse(r1.text) = input
                 THEN LLMResponses(input) ELSE {LLMRaises} :
         LET c == fix_code(fix_attempts, max_attempts, previous_errors,
                           enable_deep_analysis, input, err, r1, r2)
         IN /\ call' = c
            /\ fix_attempts' = c.n
            /\ previous_errors' = c.prev
            /\ UNCHANGED <<max_attempts, enable_deep_analysis>>
  /\ UNCHANGED <<execVars, uiVars, textVars, cacheVars,
                 sessions, instances, stored>>

SpecFixer == FixerInit /\ [][FixCode]_vars

\* ---------------------------------------------- specification: Executor
\* Executor.run_script called with any script, file name and timeout in any
\* environment.

DefaultTimeout == 30
ShortTimeout == 5

StderrAttr ==
  Traceback("3") \o <<"AttributeError", ":", " ">>
  \o NoAttribute(<<"new_", "Swc", "InternalBehavior">>) \o <<"NL">>

\* the script itself raised TimeoutError (a socket or lock timeout) and
\* exited with status 1
StderrTimeoutRaised ==
  Traceback("7") \o <<"TimeoutError", ":", " ", "timed out", "NL">>



ExecEnvs ==
  {[write |-> FALSE, proc |-> "exit0", stderr |-> <<>>, logok |-> TRUE],
   [write |-> TRUE, proc |-> "exit0", stderr |-> <<>>, logok |-> TRUE],
   [write |-> TRUE, proc |-> "timeout", stderr |-> <<>>, logok |-> TRUE],
   [write |-> TRUE, proc |-> "oserror", stderr |-> <<>>, logok |-> TRUE]}
  \cup {[write |-> TRUE, proc |-> "nonzero", stderr |-> e, logok |-> l] :
          e \in {StderrAttr, StderrTimeoutRaised, <<"Segmentation fault", "NL">>, <<>>},
          l \in BOOLEAN}

ExecInit == FixerIdle /\ ExecIdle /\ UIIdle /\ TextIdle /\ CacheIdle /\ SessIdle

RunScript ==
  /\ \E script \in FixerCodes, filename \in {"generated_script.py", "out/gen.py"},
        timeout \in {DefaultTimeout, ShortTimeout}, env \in ExecEnvs :
       exec' = [called |-> TRUE, script |-> script, filename |-> filename,
                timeout |-> timeout, env |-> env, res |-> run_script(env, timeout)]
  /\ UNCHANGED <<fixerVars, uiVars, textVars, cacheVars,
                 sessions, instances, stored>>

SpecExec == ExecInit /\ [][RunScript]_vars

\* C4: run_script never raises to its caller, whatever fails: it returns a
\* pair (success, info), and on a harness failure info carries the harness
\* exception's own type and message.
C4_NeverRaises ==
  exec.called =>
    /\ ~exec.res.raised
    /\ ~exec.env.write => exec.res.info.type = "PermissionError"
    /\ exec.env.proc = "oserror" => exec.res.info.type = "FileNotFoundError"
    /\ (exec.env.write /\ exec.env.proc = "nonzero" /\ ~exec.env.logok)
         => exec.res.info.type = "PermissionError"

\* ---------------------------------------------- specification: UI
\* One session of run_generation_pipeline, from the generated code to the
\* end of the repair loop.

\* ErrorFeedbackManager.record_error (append, count, save)
record_error(store, entry) ==
  [errors |-> Append(store.errors, entry),
   metadata |->
     [total_errors |-> store.metadata.total_errors + 1,
      total_fixes_attempted |->
        store.metadata.total_fixes_attempted + (IF entry.fix_applied # "None" THEN 1 ELSE 0),
      total_successful_fixes |->
        store.metadata.total_successful_fixes + (IF entry.fix_successful THEN 1 ELSE 0)]]

\* The error record the pipeline builds from a failed run
ErrorEntry(info, att) ==
  [error_type |-> info.type, error_message |-> info.message, error_line |-> info.line,
   fix_attempt_number |-> att + 1, fix_applied |-> "None", fix_successful |-> FALSE]

\* efm.feedback_data["errors"][-1][field] = value, if there is a record
SetLast(store, field, value) ==
  IF store.errors = <<>> THEN store
  ELSE [store EXCEPT !.errors[Len(store.errors)][field] = value]

\* run_msg as fix_code reads it: the Executor's dict, or verify_arxml's string
DictError(info) ==
  [isdict |-> TRUE, type |-> info.type, line |-> info.line,
   traceback |-> info.traceback, message |-> info.message]

\* the slider's default and the stall limit of the loop
DefaultRetries == 5
StallLimit == 5
MaxPlanSteps == 12

\* max(base_retries, int(plan_steps / 2))
DynamicRetries(base_retries, plan_steps) ==
  IF base_retries >= plan_steps \div 2 THEN base_retries ELSE plan_steps \div 2

StallReachedLate(unchanged) == unchanged >= StallLimit + 1

\* "if consecutive_unchanged >= 5"
StallReached(unchanged) == unchanged >= StallLimit

UICodes == {LineSwc, LineSaveArg, LineRunnable}

\* What running a script can do.  A script that calls the non-existent
\* new_SwcInternalBehavior exits with the AttributeError naming it; any
\* other script succeeds, runs into the timeout or raises TimeoutError
\* itself; and the script file may not be writable.
UIEnvs(script) ==
  {[write |-> FALSE, proc |-> "exit0", stderr |-> <<>>, logok |-> TRUE]}
  \cup (IF Contains(script, <<"new_", "Swc", "InternalBehavior">>)
        THEN {[write |-> TRUE, proc |-> "nonzero", stderr |-> StderrAttr, logok |-> TRUE]}
        ELSE {[write |-> TRUE, proc |-> "exit0", stderr |-> <<>>, logok |-> TRUE],
              [write |-> TRUE, proc |-> "timeout", stderr |-> <<>>, logok |-> TRUE],
              [write |-> TRUE, proc |-> "nonzero", stderr |-> StderrTimeoutRaised,
               logok |-> TRUE]})

UIResponses(c) ==
  {[raises |-> FALSE, text |-> c],
   [raises |-> FALSE, text |-> <<"FENCE", "python", "NL">> \o LineRunnable \o <<"NL", "FENCE">>]}

\* What a Fixer object has: the attributes __init__ assigns and the
\* methods of the class
FixerAttributes ==
  {"model", "previous_errors", "fix_attempts", "max_attempts", "enable_deep_analysis",
   "_extract_error_line", "_is_repeated_error", "_extract_relevant_classes_from_error",
   "_deep_analyze_error", "fix_code", "_apply_deterministic_fixes",
   "_apply_pattern_fixes"}

\* The state before the loop: the code is generated, then
\* "validator = FixerForValidation()" and
\* "validator.validate_before_execution(code)" run inside try / except
\* Exception ("Validation skipped"): on a Fixer without that attribute the
\* call raises AttributeError and the generated code stays as it is; text
\* is the text the validator has analysed.
UIInit ==
  /\ pc = "run"
  /\ attempt = 0
  /\ code \in UICodes
  /\ consecutive_unchanged = 0
  /\ success = FALSE
  /\ run_msg = ErrVerify
  /\ \E base_retries \in {3, DefaultRetries}, plan_steps \in {4, MaxPlanSteps} :
       max_retries = DynamicRetries(base_retries, plan_steps)
  /\ stall_reported = FALSE
  /\ efm = EmptyStore
  /\ runs = 0
  /\ fixes = 0
  /\ plan = parse_response(<<>>)
  /\ feedback_data = JValue("none", "", <<>>, <<>>)
  /\ feedback_file = [exists |-> FALSE, text |-> <<>>]
  /\ lookup = [op |-> "none", raised |-> FALSE, message |-> "", limit |-> 0,
               records |-> 0, result |-> <<>>]
  /\ fix_attempts = 0
  /\ max_attempts = max_retries
  /\ previous_errors = <<>>
  /\ enable_deep_analysis = TRUE
  /\ call = NoCall
  /\ ExecIdle
  /\ text = IF "validate_before_execution" \in FixerAttributes
            THEN [NewText(code) EXCEPT !.stage = "validated"]
            ELSE NewText(<<>>)
  /\ CacheIdle
  /\ SessIdle

\* After a failed attempt: "if attempt < max_retries" the Fixer is called,
\* otherwise the for loop has run its last iteration.
AfterFailureLate == IF attempt <= max_retries THEN "fix" ELSE "done"

AfterFailure == IF attempt < max_retries THEN "fix" ELSE "done"

\* executor.run_script(code) raised: the exception leaves the pipeline
UIRunRaises ==
  /\ pc = "run"
  /\ \E env \in UIEnvs(code) :
       LET r == run_script(env, DefaultTimeout) IN
       /\ r.raised
       /\ exec' = [called |-> TRUE, script |-> code, filename |-> "generated_script.py",
                   timeout |-> DefaultTimeout, env |-> env, res |-> r]
       /\ pc' = "crashed"
       /\ runs' = runs + 1
  /\ UNCHANGED <<attempt, code, consecutive_unchanged, success, run_msg, max_retries,
                 stall_reported, efm, fixes, plan,
                 feedback_data, feedback_file, lookup,
                 fixerVars, textVars, cacheVars,
                 sessions, instances, stored>>

\* the run failed: the error is recorded in the store
UIRunFails ==
  /\ pc = "run"
  /\ \E env \in UIEnvs(code) :
       LET r == run_script(env, DefaultTimeout) IN
       /\ ~r.raised /\ ~r.success
       /\ exec' = [called |-> TRUE, script |-> code, filename |-> "generated_script.py",
                   timeout |-> DefaultTimeout, env |-> env, res |-> r]
       /\ run_msg' = DictError(r.info)
       /\ efm' = record_error(efm, ErrorEntry(r.info, attempt))
       /\ pc' = AfterFailure
       /\ runs' = runs + 1
  /\ UNCHANGED <<attempt, code, consecutive_unchanged, success, max_retries,
                 stall_reported, fixes, plan,
                 feedback_data, feedback_file, lookup,
                 fixerVars, textVars, cacheVars,
                 sessions, instances, stored>>

\* the run succeeded and verify_arxml passed or failed
UIRunSucceeds ==
  /\ pc = "run"
  /\ \E env \in UIEnvs(code), verify_success \in BOOLEAN :
       LET r == run_script(env, DefaultTimeout) IN
       /\ ~r.raised /\ r.success
       /\ exec' = [called |-> TRUE, script |-> code, filename |-> "generated_script.py",
                   timeout |-> DefaultTimeout, env |-> env, res |-> r]
       /\ runs' = runs + 1
       /\ IF verify_success
          THEN /\ success' = TRUE
               /\ pc' = "done"
               /\ efm' = SetLast(efm, "fix_successful", TRUE)
               /\ UNCHANGED run_msg
          ELSE /\ run_msg' = ErrVerify
               /\ pc' = AfterFailure
               /\ UNCHANGED <<success, efm>>
  /\ UNCHANGED <<attempt, code, consecutive_unchanged, max_retries,
                 stall_reported, fixes, plan,
                 feedback_data, feedback_file, lookup,
                 fixerVars, textVars, cacheVars,
                 sessions, instances, stored>>

\* fixer.fix_code(code, run_msg, plan) and the rest of the loop body; a
\* changed output goes through validator.validate_before_execution inside
\* try / except Exception: pass
UIFix ==
  /\ pc = "fix"
  /\ LET t3 == ReachesTierThree(fix_attempts, max_attempts, code, run_msg) IN
     \E r1 \in IF t3 THEN UIResponses(code) ELSE {LLMRaises} :
     \E r2 \in IF t3 /\ ~r1.raises /\ CleanResponse(r1.text) = code
               THEN UIResponses(code) ELSE {LLMRaises} :
       LET c == fix_code(fix_attempts, max_attempts, previous_errors,
                         enable_deep_analysis, code, run_msg, r1, r2)
           unchanged == IF c.out = code THEN consecutive_unchanged + 1 ELSE 0
       IN /\ call' = c
          /\ fix_attempts' = c.n
          /\ previous_errors' = c.prev
          /\ fixes' = fixes + 1
          /\ consecutive_unchanged' = unchanged
          /\ IF c.out = code /\ StallReached(unchanged)
             THEN /\ stall_reported' = TRUE
                  /\ pc' = "done"
                  /\ UNCHANGED <<code, attempt, efm, text>>
             ELSE /\ text' = IF c.out # code
                               /\ "validate_before_execution" \in FixerAttributes
                            THEN [NewText(c.out) EXCEPT !.stage = "validated"]
                            ELSE text
                  /\ efm' = IF c.out # code
                            THEN SetLast(efm, "fix_applied", "LLM fix attempted")
                            ELSE efm
                  /\ code' = c.out
                  /\ attempt' = attempt + 1
                  /\ pc' = "run"
                  /\ UNCHANGED stall_reported
  /\ UNCHANGED <<success, run_msg, max_retries, runs, plan,
                 feedback_data, feedback_file, lookup,
                 max_attempts,
                 enable_deep_analysis, execVars, cacheVars,
                 sessions, instances, stored>>

UINext == UIRunRaises \/ UIRunFails \/ UIRunSucceeds \/ UIFix

SpecUI == UIInit /\ [][UINext]_vars

\* ----------------------------------------------- specification: CLI
\* The command line pipeline (main) run with --yes: the planning phase, then
\* the repair loop "for attempt in range(max_retries + 1)" over the generated
\* code with a Fixer() of the default budget.
\*   pc: "plan" (about to call the Planner), then as in the UI pipeline

DefaultMaxRetries == 10
DefaultMaxAttempts == 5

\* Responses of the planning LLM: the requested object in a json fence, in
\* a plain fence and bare; the object cut off before its end; prose; and
\* valid JSON that is not the requested object (a list of steps, null, {}).
PlanTexts ==
  LET Object == <<"{", "description", ":", "Create a cluster", ",", "NL",
                  "checklist", ":", "[", "Create a cluster", ",", "Add a frame", "]", "}">>
  IN {<<"FENCE", "json", "NL">> \o Object \o <<"NL", "FENCE">>,
      <<"FENCE", "NL">> \o Object \o <<"NL", "FENCE">>,
      Object,
      SubSeq(Object, 1, Len(Object) - 2),
      <<"Here", " ", "is", " ", "the", " ", "plan">>,
      <<"[", "Create a cluster", ",", "Add a frame", "]">>,
      <<"null">>,
      <<"{", "}">>}

CLIInit ==
  /\ pc = "plan"
  /\ attempt = 0
  /\ code = <<>>
  /\ consecutive_unchanged = 0
  /\ success = FALSE
  /\ run_msg = ErrVerify
  /\ max_retries \in {2, DefaultMaxRetries}
  /\ stall_reported = FALSE
  /\ efm = EmptyStore
  /\ runs = 0
  /\ fixes = 0
  /\ plan = parse_response(<<>>)
  /\ feedback_data = JValue("none", "", <<>>, <<>>)
  /\ feedback_file = [exists |-> FALSE, text |-> <<>>]
  /\ lookup = [op |-> "none", raised |-> FALSE, message |-> "", limit |-> 0,
               records |-> 0, result |-> <<>>]
  /\ fix_attempts = 0
  /\ max_attempts = DefaultMaxAttempts
  /\ previous_errors = <<>>
  /\ enable_deep_analysis = TRUE
  /\ call = NoCall
  /\ ExecIdle
  /\ TextIdle
  /\ CacheIdle
  /\ SessIdle

\* "plan = planner.create_plan(user_input, ...)" on one response of the LLM,
\* then the print of plan.get('description', 'N/A') and of the steps of
\* plan.get('checklist', []): a plan that is no dict has no get and the
\* exception leaves main.  Otherwise the plan is approved and the generator
\* produces the code of the loop.
CLIPlan ==
  /\ pc = "plan"
  /\ \E response \in PlanTexts, generated \in UICodes :
       /\ plan' = parse_response(response)
       /\ IF plan'.val.kind = "dict"
          THEN pc' = "run" /\ code' = generated
          ELSE pc' = "crashed" /\ UNCHANGED code
  /\ UNCHANGED <<attempt, consecutive_unchanged, success, run_msg, max_retries,
                 stall_reported, efm, runs, fixes, feedback_data, feedback_file,
                 lookup, fixerVars, execVars, textVars, cacheVars,
                 sessions, instances, stored>>

\* One iteration up to the fix: executor.run_script(code), the print of
\* run_msg[:500] on a failed run (run_msg is then the error dict, which
\* cannot be sliced: the exception leaves main), and verify_arxml on a
\* successful run.
CLIRun ==
  /\ pc = "run"
  /\ \E env \in UIEnvs(code), verify_success \in BOOLEAN :
       LET r == run_script(env, DefaultTimeout) IN
       /\ exec' = [called |-> TRUE, script |-> code, filename |-> "generated_script.py",
                   timeout |-> DefaultTimeout, env |-> env, res |-> r]
       /\ runs' = runs + 1
       /\ IF r.raised
          THEN pc' = "crashed" /\ UNCHANGED <<success, run_msg>>
          ELSE IF ~r.success
          THEN /\ run_msg' = DictError(r.info)
               /\ pc' = "crashed"
               /\ UNCHANGED success
          ELSE IF verify_success
          THEN success' = TRUE /\ pc' = "done" /\ UNCHANGED run_msg
          ELSE run_msg' = ErrVerify /\ pc' = AfterFailure /\ UNCHANGED success
  /\ UNCHANGED <<attempt, code, consecutive_unchanged, max_retries, stall_reported,
                 efm, fixes, plan,
                 feedback_data, feedback_file, lookup,
                 fixerVars, textVars, cacheVars,
                 sessions, instances, stored>>

\* "code = fixer.fix_code(code, run_msg, plan)", then the next iteration
CLIFix ==
  /\ pc = "fix"
  /\ LET t3 == ReachesTierThree(fix_attempts, max_attempts, code, run_msg) IN
     \E r1 \in IF t3 THEN UIResponses(code) ELSE {LLMRaises} :
     \E r2 \in IF t3 /\ ~r1.raises /\ CleanResponse(r1.text) = code
               THEN UIResponses(code) ELSE {LLMRaises} :
       LET c == fix_code(fix_attempts, max_attempts, previous_errors,
                         enable_deep_analysis, code, run_msg, r1, r2)
       IN /\ call' = c
          /\ fix_attempts' = c.n
          /\ previous_errors' = c.prev
          /\ fixes' = fixes + 1
          /\ code' = c.out
          /\ attempt' = attempt + 1
          /\ pc' = "run"
  /\ UNCHANGED <<consecutive_unchanged, success, run_msg, max_retries, stall_reported,
                 efm, runs, plan,
                 feedback_data, feedback_file, lookup,
                 max_attempts, enable_deep_analysis, execVars, textVars,
                 cacheVars,
                 sessions, instances, stored>>

SpecCLI == CLIInit /\ [][CLIPlan \/ CLIRun \/ CLIFix]_vars

\* ------------------------------------- specification: both pipelines
\* A session of either pipeline.  A session of main has asked the Planner
\* (plan.raw is the response); run_generation_pipeline is given its plan.
SpecLoops ==
  /\ UIInit \/ CLIInit
  /\ [][\/ plan.raw = <<>> /\ pc # "plan" /\ UINext
        \/ CLIPlan
        \/ plan.raw # <<>> /\ (CLIRun \/ CLIFix)]_vars

\* ------------------------------------------- specification: Sessions
\* Two sessions of run_generation_pipeline on one feedback file.  The first
\* runs in process 1, the second in the same process (a second browser
\* session of the same server) or in a second one.  A plan's description
\* goes into every record of its session as plan_context.
\*   pc of a session: "new", "run", "fix", "done"

MaxSessionRetries == 1

SessInit ==
  /\ FixerIdle
  /\ ExecIdle
  /\ UIIdle
  /\ TextIdle
  /\ CacheIdle
  /\ \E p \in {1, 2} :
       sessions = [s \in {1, 2} |->
                     [pc |-> "new",
                      process |-> IF s = 1 THEN 1 ELSE p,
                      description |-> IF s = 1 THEN "Create a CAN cluster"
                                      ELSE "Create a software component",
                      attempt |-> 0, consecutive_unchanged |-> 0, success |-> FALSE]]
  /\ instances = [p \in {1, 2} |-> [made |-> FALSE, data |-> EmptyStore]]
  /\ stored = [exists |-> FALSE, data |-> EmptyStore]

\* efm = get_error_feedback_manager(): the process's instance, constructed
\* from the feedback file if the process has none yet.  Every save_feedback
\* below makes the file the instance's whole feedback_data.
SessStart(s) ==
  LET p == sessions[s].process IN
  /\ sessions[s].pc = "new"
  /\ instances' = IF instances[p].made THEN instances
                  ELSE [instances EXCEPT ![p] = [made |-> TRUE, data |-> stored.data]]
  /\ sessions' = [sessions EXCEPT ![s].pc = "run"]
  /\ UNCHANGED <<stored, fixerVars, execVars, uiVars, textVars, cacheVars>>

\* one pass of the loop body up to "# Fix", and the success marking after
\* the loop
SessRun(s) ==
  LET p == sessions[s].process
      next == IF sessions[s].attempt < MaxSessionRetries THEN "fix" ELSE "done"
  IN
  /\ sessions[s].pc = "run"
  /\ \E env \in {[write |-> TRUE, proc |-> "exit0", stderr |-> <<>>, logok |-> TRUE],
                 [write |-> TRUE, proc |-> "nonzero", stderr |-> StderrAttr,
                  logok |-> TRUE]},
        verify_success \in BOOLEAN :
       LET r == run_script(env, DefaultTimeout) IN
       IF ~r.success
       THEN LET entry == ErrorEntry(r.info, sessions[s].attempt)
                           @@ [plan_context |-> sessions[s].description]
                data == record_error(instances[p].data, entry)
            IN /\ ~verify_success
               /\ instances' = [instances EXCEPT ![p].data = data]
               /\ stored' = [exists |-> TRUE, data |-> data]
               /\ sessions' = [sessions EXCEPT ![s].pc = next]
       ELSE IF verify_success
       THEN /\ sessions' = [sessions EXCEPT ![s].pc = "done", ![s].success = TRUE]
            /\ IF instances[p].data.errors # <<>>
               THEN LET data == SetLast(instances[p].data, "fix_successful", TRUE)
                    IN /\ instances' = [instances EXCEPT ![p].data = data]
                       /\ stored' = [exists |-> TRUE, data |-> data]
               ELSE UNCHANGED <<instances, stored>>
       ELSE /\ sessions' = [sessions EXCEPT ![s].pc = next]
            /\ UNCHANGED <<instances, stored>>
  /\ UNCHANGED <<fixerVars, execVars, uiVars, textVars, cacheVars>>

\* fixer.fix_code returned: the same code, or a changed one
SessFix(s) ==
  LET p == sessions[s].process IN
  /\ sessions[s].pc = "fix"
  /\ \E changed \in BOOLEAN :
       LET unchanged == IF changed THEN 0 ELSE sessions[s].consecutive_unchanged + 1 IN
       IF ~changed /\ StallReached(unchanged)
       THEN /\ sessions' = [sessions EXCEPT ![s].pc = "done",
                                            ![s].consecutive_unchanged = unchanged]
            /\ UNCHANGED <<instances, stored>>
       ELSE /\ sessions' = [sessions EXCEPT ![s].pc = "run",
                                            ![s].attempt = @ + 1,
                                            ![s].consecutive_unchanged = unchanged]
            /\ IF changed /\ instances[p].data.errors # <<>>
               THEN LET data == SetLast(instances[p].data, "fix_applied",
                                        "LLM fix attempted")
                    IN /\ instances' = [instances EXCEPT ![p].data = data]
                       /\ stored' = [exists |-> TRUE, data |-> data]
               ELSE UNCHANGED <<instances, stored>>
  /\ UNCHANGED <<fixerVars, execVars, uiVars, textVars, cacheVars>>

SpecSessions ==
  SessInit /\ [][\E s \in {1, 2} : SessStart(s) \/ SessRun(s) \/ SessFix(s)]_vars

\* ---------------------------------------------- specification: Store
\* One ErrorFeedbackManager from its construction on a feedback file:
\* record_error, get_statistics and get_similar_errors in any order.
\*   pc: "ready", or "crashed" once a call has raised

MaxRecords == 3

\* The feedback file before the manager is constructed: absent, empty, cut
\* off, JSON that is no object, an object without the keys or with keys of
\* the wrong type, and files that save_feedback wrote.
FeedbackFiles ==
  LET Record(message, n) ==
        <<"{", "error_message", ":", message, ",", "fix_attempt_number", ":", n, "}">>
      Saved(first, second) ==
        <<"{", "errors", ":", "[">> \o Record(first, "1") \o <<",">> \o Record(second, "2")
        \o <<"]", ",", "metadata", ":", "{", "total_errors", ":", "2", ",",
             "total_fixes_attempted", ":", "0", ",", "total_successful_fixes", ":", "0",
             ",", "last_updated", ":", "2025-01-01T00:00:00", "}", "}">>
  IN {[exists |-> FALSE, text |-> <<>>]}
     \cup {[exists |-> TRUE, text |-> t] :
             t \in {<<>>,
                    SubSeq(Saved("abcd", "abce"), 1, 12),
                    <<"[", "]">>,
                    <<"null">>,
                    <<"{", "}">>,
                    Saved("abcd", "abce"),
                    Saved("abcd", "abcd"),
                    Saved("abcd", "abxy"),
                    <<"{", "errors", ":", "{", "}", ",", "metadata", ":", "[", "]", "}">>,
                    <<"{", "errors", ":", "[", "]", ",", "metadata", ":", "{",
                      "total_errors", ":", "null", "}", "}">>,
                    <<"{", "errors", ":", "[", "abcd", "]", ",", "metadata", ":", "{", "}",
                      "}">>}}

StoreInit ==
  /\ pc = "ready"
  /\ feedback_file \in FeedbackFiles
  /\ feedback_data = load_feedback(feedback_file)
  /\ lookup = [op |-> "none", raised |-> FALSE, message |-> "", limit |-> 0,
               records |-> 0, result |-> <<>>]
  /\ attempt = 0
  /\ code = <<>>
  /\ consecutive_unchanged = 0
  /\ success = FALSE
  /\ run_msg = ErrVerify
  /\ max_retries = 0
  /\ stall_reported = FALSE
  /\ efm = EmptyStore
  /\ runs = 0
  /\ fixes = 0
  /\ plan = parse_response(<<>>)
  /\ FixerIdle
  /\ ExecIdle
  /\ TextIdle
  /\ CacheIdle
  /\ SessIdle

\* record_error(error_entry) with the entry of a failed run (fix_applied
\* None, fix_successful False): append, count, save_feedback.  The count
\* "metadata.get("total_errors", 0) + 1" raises TypeError on a value that
\* is no number, after the append and before the save.
StoreRecord ==
  /\ pc = "ready"
  /\ \E message \in {"abcd", "abce", "wxyz"} :
       LET list == JValue("list", "", <<>>, <<>>)
           zero == JValue("scalar", "0", <<>>, <<>>)
           errors == IF DictGet(feedback_data, "errors", zero).kind = "list"
                     THEN DictGet(feedback_data, "errors", zero) ELSE list
           entry == JValue("dict", "", <<"error_message", "fix_attempt_number">>,
                           <<JValue("scalar", message, <<>>, <<>>),
                             JValue("scalar", ToString(Len(errors.items) + 1), <<>>, <<>>)>>)
           appended == DictSet(feedback_data, "errors",
                               [errors EXCEPT !.items = Append(@, entry)])
           metadata == IF DictGet(appended, "metadata", zero).kind = "dict"
                       THEN DictGet(appended, "metadata", zero)
                       ELSE JValue("dict", "",
                                   <<"total_errors", "total_fixes_attempted",
                                     "total_successful_fixes", "last_updated">>,
                                   <<zero, zero, zero, JValue("scalar", "null", <<>>, <<>>)>>)
           total == DictGet(metadata, "total_errors", zero)
           numbers == {n \in 0..(2 * MaxRecords) : ToString(n) = total.atom}
           counted == DictSet(metadata, "total_errors",
                              JValue("scalar", ToString((CHOOSE n \in numbers : TRUE) + 1),
                                     <<>>, <<>>))
           saved == DictSet(appended, "metadata",
                            DictSet(counted, "last_updated",
                                    JValue("scalar", "2025-01-01T00:00:01", <<>>, <<>>)))
       IN /\ Len(errors.items) < MaxRecords
          /\ IF total.kind = "scalar" /\ numbers # {}
             THEN /\ feedback_data' = saved
                  /\ feedback_file' = [exists |-> TRUE, text |-> json_dumps(saved)]
                  /\ UNCHANGED pc
             ELSE /\ feedback_data' = DictSet(appended, "metadata", metadata)
                  /\ pc' = "crashed"
                  /\ UNCHANGED feedback_file
  /\ UNCHANGED <<attempt, code, consecutive_unchanged, success, run_msg, max_retries,
                 stall_reported, efm, runs, fixes, plan, lookup, fixerVars, execVars,
                 textVars, cacheVars,
                 sessions, instances, stored>>

\* get_statistics(): error.get(...) on every record, the message cut to
\* 100 characters and counted; a record that is no dict has no get and a
\* message that is no string cannot be cut or counted
StoreStatistics ==
  /\ pc = "ready"
  /\ LET zero == JValue("scalar", "0", <<>>, <<>>)
         errors == DictGet(feedback_data, "errors", zero).items
         metadata == DictGet(feedback_data, "metadata", zero)
         String(v) == v.kind = "scalar" /\ v.atom # "null"
                      /\ \A n \in 0..(2 * MaxRecords) : ToString(n) # v.atom
         Number(v) == v.kind = "scalar" /\ \E n \in 0..(2 * MaxRecords) : ToString(n) = v.atom
         raises ==
           \/ ~Number(DictGet(metadata, "total_fixes_attempted", zero))
           \/ \E i \in 1..Len(errors) :
                \/ errors[i].kind # "dict"
                \/ ~String(DictGet(errors[i], "error_message",
                                    JValue("scalar", "", <<>>, <<>>)))
     IN /\ lookup' = [op |-> "statistics", raised |-> raises, message |-> "", limit |-> 0,
                      records |-> Len(errors),
                      result |-> IF raises THEN <<>>
                                 ELSE <<DictGet(metadata, "total_errors", zero)>>]
        /\ pc' = IF raises THEN "crashed" ELSE pc
  /\ UNCHANGED <<attempt, code, consecutive_unchanged, success, run_msg, max_retries,
                 stall_reported, efm, runs, fixes, plan, feedback_data, feedback_file,
                 fixerVars, execVars, textVars, cacheVars,
                 sessions, instances, stored>>

\* get_similar_errors(error_message, limit): e.get(...) on every record and
\* the comparison of the messages raise on a record that is no dict and
\* on a message that is no string
StoreSimilar ==
  /\ pc = "ready"
  /\ \E message \in {"abcd", "abce", "wxyz"}, limit \in {1, 2, 5} :
       LET errors == DictGet(feedback_data, "errors", JValue("list", "", <<>>, <<>>)).items
           String(v) == v.kind = "scalar" /\ v.atom # "null"
                        /\ \A n \in 0..(2 * MaxRecords) : ToString(n) # v.atom
           raises == \E i \in 1..Len(errors) :
                       \/ errors[i].kind # "dict"
                       \/ ~String(DictGet(errors[i], "error_message",
                                           JValue("scalar", "", <<>>, <<>>)))
       IN /\ lookup' = [op |-> "similar", raised |-> raises, message |-> message,
                        limit |-> limit, records |-> Len(errors),
                        result |-> IF raises THEN <<>>
                                   ELSE get_similar_errors(feedback_data, message, limit)]
          /\ pc' = IF raises THEN "crashed" ELSE pc
  /\ UNCHANGED <<attempt, code, consecutive_unchanged, success, run_msg, max_retries,
                 stall_reported, efm, runs, fixes, plan, feedback_data, feedback_file,
                 fixerVars, execVars, textVars, cacheVars,
                 sessions, instances, stored>>

SpecStore == StoreInit /\ [][StoreRecord \/ StoreStatistics \/ StoreSimilar]_vars

\* ---------------------------------------------- specification: Text
\* The hallucination table rewrite, quick_fix and validate applied to
\* code texts.

TextInit ==
  /\ \E c \in TextCodes : text = NewText(c)
  /\ FixerIdle
  /\ ExecIdle
  /\ UIIdle
  /\ CacheIdle
  /\ SessIdle

\* quick_fix(code), and the table rewrite alone
QuickFix ==
  /\ text.stage = "new"
  /\ text' = [text EXCEPT !.stage = "fixed",
                          !.table_once = FixHallucinations(text.code).code,
                          !.quick_once = quick_fix(text.code).code]
  /\ UNCHANGED <<fixerVars, execVars, uiVars, cacheVars,
                 sessions, instances, stored>>

\* the same rewrites applied to their own result
QuickFixAgain ==
  /\ text.stage = "fixed"
  /\ text' = [text EXCEPT !.stage = "refixed",
                          !.table_twice = FixHallucinations(text.table_once).code,
                          !.quick_twice = quick_fix(text.quick_once).code]
  /\ UNCHANGED <<fixerVars, execVars, uiVars, cacheVars,
                 sessions, instances, stored>>

\* validate(code) with and without auto-fix
Validate ==
  /\ text.stage = "new"
  /\ text' = [text EXCEPT !.stage = "validated",
                          !.original = validate(LibraryApi, text.code, FALSE),
                          !.result = validate(LibraryApi, text.code, TRUE)]
  /\ UNCHANGED <<fixerVars, execVars, uiVars, cacheVars,
                 sessions, instances, stored>>

\* validate(fixed_code) for a result that carries a fixed_code
Revalidate ==
  /\ text.stage = "validated"
  /\ text.result.fixed_code.some
  /\ text' = [text EXCEPT !.stage = "revalidated",
                          !.recheck = validate(LibraryApi, text.result.fixed_code.code, TRUE)]
  /\ UNCHANGED <<fixerVars, execVars, uiVars, cacheVars,
                 sessions, instances, stored>>

\* APIValidator().validate_code(code)
ValidateCode ==
  /\ text.stage = "new"
  /\ \E kb \in KnowledgeBases :
       text' = [text EXCEPT !.stage = "api", !.kb = kb, !.api = validate_code(kb, text.code)]
  /\ UNCHANGED <<fixerVars, execVars, uiVars, cacheVars,
                 sessions, instances, stored>>

SpecText ==
  TextInit /\ [][QuickFix \/ QuickFixAgain \/ Validate \/ Revalidate \/ ValidateCode]_vars

\* --------------------------------------------- specification: Cache
\* Processes that obtain the symbol table and the code graph, from the
\* library or from the cache files, and ask validate_method_call.

MaxBuilds == 3

\* At the start the cache files are absent, unreadable, or readable but
\* not what a complete write leaves: a symbol table cache without classes,
\* a graph cache with one node and a malformed edge entry.
CacheInit ==
  /\ library \in Libraries
  /\ clock = 0
  /\ symbol_cache \in {NoSymbolCache,
                       [NoSymbolCache EXCEPT !.exists = TRUE, !.state = "unreadable"],
                       [NoSymbolCache EXCEPT !.exists = TRUE]}
  /\ graph_cache \in {NoGraphCache,
                      [NoGraphCache EXCEPT !.exists = TRUE, !.state = "unreadable"],
                      [exists |-> TRUE, state |-> "malformed",
                       data |-> [nodes |-> {ClassNode("Pdu")}, edges |-> {}]]}
  /\ symbol_table = NoTable
  /\ graph = NoGraph
  /\ builds = <<>>
  /\ query = NoQuery
  /\ FixerIdle
  /\ ExecIdle
  /\ UIIdle
  /\ TextIdle
  /\ SessIdle

\* The process ends and a new one starts, on the library then installed
StartProcess ==
  /\ symbol_table.loaded \/ symbol_table.raised
  /\ library' \in Libraries
  /\ symbol_table' = NoTable
  /\ graph' = NoGraph
  /\ UNCHANGED <<clock, symbol_cache, graph_cache, builds, query>>
  /\ UNCHANGED <<fixerVars, execVars, uiVars, textVars,
                 sessions, instances, stored>>

\* get_symbol_table(force_rebuild): the cache file if there is one, no
\* rebuild is forced and the load raises nothing, else _build_symbol_table,
\* whose import raises without the library, and _save_cache
GetSymbolTable ==
  /\ ~symbol_table.raised
  /\ \E force_rebuild \in BOOLEAN :
       /\ force_rebuild \/ ~symbol_table.loaded
       /\ IF ~force_rebuild /\ symbol_cache.exists /\ symbol_cache.state = "ok"
          THEN /\ symbol_table' = [loaded |-> TRUE, raised |-> FALSE,
                                   table |-> from_dict(symbol_cache.data)]
               /\ UNCHANGED <<clock, symbol_cache, builds>>
          ELSE IF ~library.importable
          THEN /\ symbol_table' = [NoTable EXCEPT !.raised = TRUE]
               /\ UNCHANGED <<clock, symbol_cache, builds>>
          ELSE LET table == build_symbol_table(library)
                   data  == CacheData(table, clock + 1)
               IN /\ Len(builds) < MaxBuilds
                  /\ symbol_table' = [loaded |-> TRUE, raised |-> FALSE, table |-> table]
                  /\ symbol_cache' = [exists |-> TRUE, state |-> "ok", data |-> data]
                  /\ clock' = clock + 1
                  /\ builds' = Append(builds, [lib |-> library, data |-> data])
  /\ UNCHANGED <<library, graph_cache, graph, query>>
  /\ UNCHANGED <<fixerVars, execVars, uiVars, textVars,
                 sessions, instances, stored>>

\* CodeKnowledgeGraph(symbol_table, force_rebuild): "self.graph =
\* nx.DiGraph()", then _load_cache unless a rebuild is forced, and when that
\* returns False _build_graph and _save_cache.  _load_cache fills
\* self.graph entry by entry and returns False at the first that cannot be
\* unpacked; _build_graph adds to self.graph as it is.
NewGraph ==
  /\ symbol_table.loaded
  /\ \E force_rebuild \in BOOLEAN :
       /\ force_rebuild \/ ~graph.loaded
       /\ IF ~force_rebuild /\ graph_cache.exists /\ graph_cache.state = "ok"
          THEN /\ graph' = [loaded |-> TRUE, graph |-> graph_cache.data]
               /\ UNCHANGED graph_cache
          ELSE LET read  == IF ~force_rebuild /\ graph_cache.exists
                               /\ graph_cache.state = "malformed"
                            THEN graph_cache.data ELSE EmptyGraph
                   built == build_graph(symbol_table.table)
                   g     == [nodes |-> read.nodes \cup built.nodes,
                             edges |-> read.edges \cup built.edges]
               IN /\ graph' = [loaded |-> TRUE, graph |-> g]
                  /\ graph_cache' = [exists |-> TRUE, state |-> "ok", data |-> g]
  /\ UNCHANGED <<library, clock, symbol_cache, symbol_table, builds, query>>
  /\ UNCHANGED <<fixerVars, execVars, uiVars, textVars,
                 sessions, instances, stored>>

\* validate_method_call(class_name, method_name)
ValidateMethodCall ==
  /\ graph.loaded
  /\ \E c \in LibraryOne.classes \cup {"Pdu"},
        m \in UNION {LibraryOne.own[k] : k \in LibraryOne.classes} :
       query' = [asked |-> TRUE, class |-> c, method |-> m,
                 valid |-> validate_method_call(graph.graph, c, m), lib |-> library]
  /\ UNCHANGED <<library, clock, symbol_cache, graph_cache, symbol_table, graph, builds>>
  /\ UNCHANGED <<fixerVars, execVars, uiVars, textVars,
                 sessions, instances, stored>>

SpecCache ==
  CacheInit /\ [][StartProcess \/ GetSymbolTable \/ NewGraph \/ ValidateMethodCall]_vars


\* A fix_code call has been made and was inside the attempt budget
InBudget == call.n >= 1 /\ call.n <= max_attempts

\* C1: with max_attempts = N, the (N+1)th and every later fix_code call
\* returns exactly the code it was given and runs no repair tier: no
\* deterministic rewrite, no pattern rewrite, no error-feedback lookup, no
\* LLM call.
C1_BudgetCeiling ==
  call.n > max_attempts =>
    /\ call.out = call.code
    /\ call.tiers = <<>>
    /\ ~call.efm
    /\ call.llm = 0
    /\ ~call.repeated

\* C1 witness: the call right after the budget, on a code that Tier 2
\* would have rewritten, after calls that ended in different tiers
C1_Witness ==
  /\ max_attempts >= 1
  /\ call.n = max_attempts + 1
  /\ apply_pattern_fixes(call.code) # call.code
  /\ Len(previous_errors) >= 1

\* The session is over without success and every fix_code result so far
\* was byte-identical to its input
FailedAllUnchanged ==
  /\ pc = "done"
  /\ ~success
  /\ consecutive_unchanged = fixes

\* C2 (as claimed): if the script keeps failing and every fix result is
\* unchanged, the loop ends after exactly 5 consecutive unchanged results
\* and reports a stall, for every configured retry budget.
C2_StallEveryBudget ==
  FailedAllUnchanged => (stall_reported /\ fixes = StallLimit)

\* C2 (amended): for a retry budget of at least 5, a session that keeps
\* failing with unchanged fix results ends after exactly 5 of them with a
\* stall report; for every budget a stall is reported exactly when 5
\* consecutive results were unchanged, the loop is then over with no
\* further run or fix_code call, and the loop never makes more than
\* max_retries fix_code calls and max_retries + 1 runs.
C2_StallAtFive ==
  /\ (FailedAllUnchanged /\ max_retries >= StallLimit)
       => (stall_reported /\ fixes = StallLimit)
  /\ (FailedAllUnchanged /\ max_retries < StallLimit)
       => (~stall_reported /\ fixes = max_retries)
  /\ consecutive_unchanged <= StallLimit
  /\ stall_reported <=> (consecutive_unchanged = StallLimit)
  /\ stall_reported =>
       /\ pc = "done"
       /\ call.out = call.code
       /\ runs = fixes
       /\ ~ENABLED UINext
  /\ fixes <= max_retries
  /\ runs <= max_retries + 1

\* C2 witness: a stall reported while the budget still had attempts left
C2_Witness ==
  /\ stall_reported
  /\ max_retries > StallLimit
  /\ fixes = StallLimit
  /\ attempt < max_retries

\* C5: run_script reports the type "TimeoutError" exactly when the
\* subprocess exceeded its timeout, a script that exits nonzero is never
\* reported with that type, and the record appended to the error store
\* for the failed run carries the type run_script returned.
C5_TimeoutOnlyOnTimeout ==
  (exec.called /\ ~exec.res.raised /\ ~exec.res.success) =>
    /\ (exec.res.info.type = "TimeoutError") <=> (exec.env.proc = "timeout")
    /\ exec.env.proc = "nonzero" => exec.res.info.type # "TimeoutError"
    /\ efm.errors # <<>>
    /\ efm.errors[Len(efm.errors)].error_type = exec.res.info.type

\* C3 (as claimed): inside the budget the tiers run in order 1, 2, 3, the
\* LLM is called only if Tier 1 and Tier 2 left the code unchanged, and for
\* every known wrong identifier that the error message names and the code
\* contains, the returned code has every occurrence replaced by the right
\* identifier and no LLM call was made.
C3_TierOrderEveryNamed ==
  InBudget =>
    /\ call.tiers \in {<<1>>, <<1, 2>>, <<1, 2, 3>>}
    /\ call.llm > 0 =>
         /\ apply_deterministic_fixes(call.code, call.err.message) = call.code
         /\ apply_pattern_fixes(call.code) = call.code
    /\ \A k \in 1..Len(error_fixes) :
         ( /\ error_fixes[k].fix
           /\ Contains(call.err.message, NoAttribute(error_fixes[k].old))
           /\ Contains(call.code, error_fixes[k].old) )
         => /\ call.llm = 0
            /\ ~Contains(call.out, error_fixes[k].old)
            /\ Contains(call.out, error_fixes[k].new)

\* C3 (amended): as above, but of the wrong identifiers named by the
\* message and present in the code, the one replaced (every occurrence of
\* it) is the first in the order of the fix table; the call returns after
\* that one replacement, with no LLM call.
C3_TierOrderFirstNamed ==
  InBudget =>
    /\ call.tiers \in {<<1>>, <<1, 2>>, <<1, 2, 3>>}
    /\ call.llm > 0 =>
         /\ call.tiers = <<1, 2, 3>>
         /\ apply_deterministic_fixes(call.code, call.err.message) = call.code
         /\ apply_pattern_fixes(call.code) = call.code
    /\ call.tiers = <<1, 2>> =>
         apply_deterministic_fixes(call.code, call.err.message) = call.code
    /\ \A k \in 1..Len(error_fixes) :
         ( /\ error_fixes[k].fix
           /\ Contains(call.err.message, NoAttribute(error_fixes[k].old))
           /\ Contains(call.code, error_fixes[k].old)
           /\ \A j \in 1..(k - 1) :
                ~( /\ error_fixes[j].fix
                   /\ Contains(call.err.message, NoAttribute(error_fixes[j].old))
                   /\ Contains(call.code, error_fixes[j].old) ) )
         => /\ call.llm = 0
            /\ call.tiers = <<1>>
            /\ call.out = Replace(call.code, error_fixes[k].old, error_fixes[k].new)
            /\ ~Contains(call.out, error_fixes[k].old)

\* C3 witness: a Tier 1 return on a code with two occurrences of the named
\* identifier new_SwcInternalBehavior
C3_Witness ==
  /\ InBudget
  /\ call.tiers = <<1>>
  /\ call.llm = 0
  /\ call.code = JoinLines(<<LineSwc, LineEntity, LineSwc>>)
  /\ call.err = ErrSwc
  /\ call.out = JoinLines(<<<<"obj", ".", "new_", "InternalBehavior", "(", "x", ")">>,
                            LineEntity,
                            <<"obj", ".", "new_", "InternalBehavior", "(", "x", ")">> >>)

\* The text only uses table identifiers that are corrections (values)
OnlyCorrections(c) ==
  \E k \in 1..Len(HALLUCINATION_FIXES) : c = CallLine(HALLUCINATION_FIXES[k].correct)

\* C6: the hallucination table rewrite is idempotent and leaves correct
\* code alone: applying it twice gives the same text as applying it once,
\* and a text that only uses corrections of the table is returned unchanged.
C6_RewriteIdempotent ==
  text.stage = "refixed" =>
    /\ text.table_twice = text.table_once
    /\ text.quick_twice = text.quick_once
    /\ OnlyCorrections(text.code) => text.table_once = text.code

\* C7: whenever validate(code) returns a fixed_code, validating fixed_code
\* finds no more ERROR issues than validating the original code without
\* auto-fix.
C7_FixesAddNoError ==
  text.stage = "revalidated" =>
    error_count(text.recheck) <= error_count(text.original)

\* C9: whenever validate_method_call reports valid, the method is
\* enumerable on that class of the installed library, however the graph
\* was obtained.
C9_GraphSound ==
  (query.asked /\ query.valid)
  => (query.class \in query.lib.classes
      /\ query.method \in Members(query.lib, query.class))

\* C10: two outputs of the symbol table builder for the same library are
\* byte-identical.
C10_CacheDeterministic ==
  \A i, j \in 1..Len(builds) :
    builds[i].lib = builds[j].lib => builds[i].data = builds[j].data

\* The result validate gives for a text that does not parse
SyntaxErrorOnly(result) ==
  /\ ~result.is_valid
  /\ result.issues = <<"SYNTAX">>
  /\ ~result.fixed_code.some
  /\ result.fixes_applied = 0

\* C17: for code that does not parse, validate returns is_valid = false
\* with exactly the syntax ERROR issue, no other issue, no fixed_code and
\* no applied fix, with and without auto-fix.
C17_SyntaxErrorOnly ==
  /\ (text.stage \in {"validated", "revalidated"} /\ ~Parses(text.code))
       => (SyntaxErrorOnly(text.original) /\ SyntaxErrorOnly(text.result))
  /\ (text.stage = "revalidated" /\ ~Parses(text.result.fixed_code.code))
       => SyntaxErrorOnly(text.recheck)

\* C17 witness: validate has run on a text that does not parse and that
\* has a hallucinated call and a save() with an argument
C17_Witness ==
  /\ text.stage = "validated"
  /\ ~Parses(text.code)
  /\ check_hallucinations(text.code) # <<>>
  /\ SearchSavePattern(text.code)
  /\ SyntaxErrorOnly(text.result)

\* C18: when Tier 1 does not apply and the code contains
\* .new_<X>Ref().set_value(<arg>) with an argument the validator's
\* reference rewrite accepts, fix_code returns from Tier 2 with every such
\* occurrence replaced by .set_<x>(<arg>), the same text the validator's
\* rewrite gives.
C18_SameReferenceRewrite ==
  ( /\ InBudget
    /\ apply_deterministic_fixes(call.code, call.err.message) = call.code
    /\ \E i \in 1..Len(call.code) : RefPatternMatch(call.code, i, FALSE).ok )
  => /\ call.tiers = <<1, 2>>
     /\ call.out = SubRefPattern(call.code, FALSE)

\* C15: in the CLI no failed run of the generated script, reported by
\* run_script as (False, structured error), makes the pipeline abort with
\* an exception: the loop goes on to fix_code when attempts remain and
\* otherwise ends with the failure report.
C15_CLIFailureHandled ==
  (exec.called /\ ~exec.res.raised /\ ~exec.res.success /\ pc # "run")
  => /\ pc # "crashed"
     /\ runs = fixes + 1 => pc = (IF attempt < max_retries THEN "fix" ELSE "done")

\* C20: in the CLI loop, once fix_code has returned the code unchanged
\* because the Fixer's budget was exceeded, the loop is over: no further
\* run and no further fix_code call.
C20_BudgetEndsCLILoop ==
  call.n > max_attempts => (pc = "done" /\ runs = call.n)

\* C16: whatever the LLM answered, create_plan returns a Plan (a mapping
\* with description and checklist), and when the answer is not such a
\* mapping the checklist holds the parsing-failed marker and the raw text.
C16_AlwaysAPlan ==
  pc # "plan" =>
    LET v == plan.val
        asked == json_loads(plan.raw)
        HasKeys(d) == d.kind = "dict" /\ \A k \in {"description", "checklist"} :
                                          \E i \in 1..Len(d.keys) : d.keys[i] = k
    IN /\ HasKeys(v)
       /\ ~(asked.ok /\ HasKeys(asked.val))
            => \E i \in 1..Len(v.keys) :
                 /\ v.keys[i] = "checklist"
                 /\ v.items[i].kind = "list"
                 /\ \E j \in 1..Len(v.items[i].items) :
                      v.items[i].items[j].atom = "Error parsing LLM output"
                 /\ \E j \in 1..Len(v.items[i].items) :
                      /\ v.items[i].items[j].kind = "text"
                      /\ v.items[i].items[j].items = plan.raw

\* C19: in the UI pipeline every script handed to run_script is a text
\* the pre-execution validator has analysed.
C19_ValidatedBeforeRun ==
  exec.called => (text.stage = "validated" /\ text.code = exec.script)

\* C13: whatever the feedback file holds, the store built from it is well
\* formed (errors is a list, metadata holds every counter) and neither
\* record_error nor get_statistics raises on it.
C13_StoreUsable ==
  pc \in {"ready", "crashed"} =>
    LET none == JValue("none", "", <<>>, <<>>)
        metadata == DictGet(feedback_data, "metadata", none)
    IN /\ DictGet(feedback_data, "errors", none).kind = "list"
       /\ metadata.kind = "dict"
       /\ \A k \in {"total_errors", "total_fixes_attempted", "total_successful_fixes"} :
            DictGet(metadata, k, none) # none
       /\ pc = "crashed" => (lookup.op = "similar" /\ lookup.raised)

\* C14: with two records in the store whose messages are within the
\* similarity cutoff of each other (equal messages included),
\* get_similar_errors asked with either message and a limit of at least 2
\* returns both records, each once.
C14_BothReturned ==
  LET errors == DictGet(feedback_data, "errors", JValue("list", "", <<>>, <<>>)).items
      Message(i) == DictGet(errors[i], "error_message",
                            JValue("scalar", "", <<>>, <<>>)).atom
  IN (/\ pc = "ready" /\ lookup.op = "similar" /\ ~lookup.raised /\ lookup.limit >= 2
      /\ Len(errors) = 2 /\ lookup.records = 2
      /\ get_close_matches(Message(1), <<Message(2)>>, 1) # <<>>
      /\ lookup.message \in {Message(1), Message(2)})
     => \A i \in 1..2 :
          Cardinality({k \in 1..Len(lookup.result) : lookup.result[k] = errors[i]}) = 1

\* C11: whatever the cache files hold (absent, corrupt, being written),
\* loading never raises and the graph a process ends up with is a complete
\* one: the graph of its symbol table, never one with entries read from
\* a cache file whose load failed.
C11_NoPartialLoad ==
  /\ symbol_table.raised => ~library.importable
  /\ graph.loaded =>
       \/ graph.graph = build_graph(symbol_table.table)
       \/ \E lib \in Libraries : graph.graph = build_graph(build_symbol_table(lib))

\* C12: get_symbol_table raises or returns a symbol table with at least
\* one class.
C12_NeverEmpty ==
  symbol_table.loaded => DOMAIN symbol_table.table.classes # {}

\* C22: a fix_code call that reaches Tier 3 makes at most 2 LLM calls: a
\* first response that, cleaned, differs from the input is returned after
\* 1 call; an identical one is followed by exactly one more call, whose
\* cleaned response is returned, and if that is identical too the call
\* returns its input.
C22_AtMostTwoCalls ==
  /\ call.llm <= 2
  /\ call.llm >= 1 <=> call.tiers = <<1, 2, 3>>
  /\ (call.tiers = <<1, 2, 3>> /\ ~call.llmraised) =>
       /\ Len(call.fixed) = call.llm
       /\ call.fixed[1] # call.code => (call.llm = 1 /\ call.out = call.fixed[1])
       /\ call.fixed[1] = call.code =>
            /\ call.llm = 2
            /\ call.out = call.fixed[2]
            /\ call.fixed[2] = call.code => call.out = call.code

\* C22 witnesses: both responses identical to the input, and a second
\* response that differs
C22_Witness ==
  /\ call.llm = 2
  /\ ~call.llmraised
  /\ call.fixed = <<call.code, call.code>>
  /\ call.out = call.code

C24_RepeatedAcrossTiers ==
  [][LET Signature(e) == ErrorKey(IF e.isdict THEN e.traceback \o <<" ">> \o e.message
                                  ELSE e.message)
     IN (call'.n = call.n + 1 /\ call'.tiers = <<1, 2, 3>>) =>
          /\ (call.n >= 1 /\ Signature(call'.err) = Signature(call.err))
               => call'.repeated
          /\ call'.repeated
               => \E j \in 1..Len(previous_errors) :
                    previous_errors[j] = Signature(call'.err)]_vars

\* C21: in both repair loops the script is run at most max_retries + 1
\* times and fix_code is called at most max_retries times, fix_code is
\* never called once a run has executed and verified successfully, and
\* in the UI loop the calls never exceed the Fixer's max_attempts.
C21_LoopBudget ==
  /\ [](/\ runs <= max_retries + 1
        /\ fixes <= max_retries
        /\ fix_attempts = fixes
        /\ plan.raw = <<>> => fix_attempts <= max_attempts)
  /\ [][fixes' # fixes => (~success /\ ~success' /\ runs > fixes)]_vars

\* C21 witness: a session that used its whole budget, the last run failing
C21_Witness ==
  /\ pc = "done"
  /\ ~success
  /\ ~stall_reported
  /\ runs = max_retries + 1
  /\ fixes = max_retries

\* C28: in the UI pipeline every failed attempt that is followed by a
\* fix_code call has appended exactly one record to the store, a failed
\* verification as well as a failed run, and the record of a failed
\* verification carries an error type that no failed run is recorded with.
C28_EveryFailureRecorded ==
  [][(pc = "run" /\ pc' = "fix") =>
       /\ Len(efm'.errors) = Len(efm.errors) + 1
       /\ ~exec'.res.success =>
            efm'.errors[Len(efm'.errors)].error_type = exec'.res.info.type
       /\ exec'.res.success =>
            efm'.errors[Len(efm'.errors)].error_type
              \notin {run_script(env, DefaultTimeout).info.type : env \in ExecEnvs}]_vars

\* C29: what get_statistics reports from the metadata agrees with the
\* records: total_errors is the number of records, total_fix_attempts
\* the number of records with a fix_applied value, total_successful_fixes
\* the number of records with fix_successful = true.
C29_CountersMatchRecords ==
  LET Count(field, none) ==
        Cardinality({i \in 1..Len(efm.errors) : efm.errors[i][field] # none})
  IN /\ efm.metadata.total_errors = Len(efm.errors)
     /\ efm.metadata.total_fixes_attempted = Count("fix_applied", "None")
     /\ efm.metadata.total_successful_fixes = Count("fix_successful", FALSE)

\* C30: validate_code's result is invalid only for an error that is
\* neither labelled a warning nor a method not found on a class that was
\* guessed from the variable's name.
C30_WarningsDoNotBlock ==
  (text.stage = "api" /\ ~text.api.is_valid) =>
    \E k \in 1..Len(text.api.errors) :
      /\ text.api.errors[k].text # "Warning: No error handling"
      /\ text.api.errors[k].how # "name"

\* C25: when a session of the UI pipeline ends in success (no other
\* session being under way), the record set to fix_successful is the last
\* record this same session appended; a session that appended no record
\* modifies no record of the store.
C25_MarksOwnLastRecord ==
  [][\A s \in DOMAIN sessions :
       (/\ sessions'[s].success /\ ~sessions[s].success
        /\ \A t \in DOMAIN sessions \ {s} : sessions[t].pc \in {"new", "done"}) =>
         LET before == instances[sessions[s].process].data.errors
             after == instances'[sessions[s].process].data.errors
             mine == {k \in 1..Len(before) :
                        before[k].plan_context = sessions[s].description}
         IN /\ Len(after) = Len(before)
            /\ \A k \in 1..Len(before) :
                 /\ after[k] # before[k] => (k \in mine /\ \A j \in mine : j <= k)
                 /\ (k \in mine /\ \A j \in mine : j <= k) => after[k].fix_successful
     ]_vars

\* C26: with two sessions under way in one process on the shared
\* ErrorFeedbackManager, a step of one session (its fix_applied update or
\* its success marking) only modifies records that this session appended.
C26_SessionsKeepApart ==
  [][\A s \in DOMAIN sessions :
       (/\ sessions'[s] # sessions[s]
        /\ \A t \in DOMAIN sessions \ {s} : /\ sessions[t].process = sessions[s].process
                                     /\ sessions[t].pc \in {"run", "fix"}) =>
         LET before == instances[sessions[s].process].data.errors
             after == instances'[sessions[s].process].data.errors
         IN \A k \in 1..Len(before) :
              after[k] # before[k] => before[k].plan_context = sessions[s].description
     ]_vars

\* C27: with two ErrorFeedbackManager instances in two processes on one
\* feedback file, a record that is in the file is still in the file after
\* any later write of either instance.
C27_PersistedRecordsStay ==
  [][sessions[1].process # sessions[2].process =>
       \A k \in 1..Len(stored.data.errors) :
         \E j \in 1..Len(stored'.data.errors) :
           /\ stored'.data.errors[j].plan_context = stored.data.errors[k].plan_context
           /\ stored'.data.errors[j].fix_attempt_number
                = stored.data.errors[k].fix_attempt_number
     ]_vars

\* C8: fix_code preserves syntactic validity: if the input code parses,
\* the returned code parses.
C8_SyntaxPreserved == Parses(call.code) => Parses(call.out)
====
